---- MODULE Spec2Model ----
(***************************************************************************)
(* A model of ipapp.  Each part has its own specification; the variables   *)
(* of the other parts keep their initial values under it.                  *)
(*   SpecApp      the component lifecycle of Application (app.py)          *)
(*   SpecSpan     the span tree and its hand-over (logger/span.py)         *)
(*   SpecLock     the Redis lock (utils/lock.py)                           *)
(*   SpecTask     the dispatch of one task row by several task managers    *)
(*   SpecLogger   Logger.handle_span (logger/logger.py)                    *)
(*   SpecBatch    the JSON-RPC batch                                       *)
(*   SpecRpc      RPC calls over AMQP (rpc/mq/pika.py)                     *)
(*   SpecHeaders  Span.to_headers and Span.from_headers                    *)
(*   SpecRest     the HTTP status of positional RPC (rpc/post_rpc/main.py) *)
(*   SpecHealth   the health-check request (http/server.py)                *)
(*   SpecTrap     SpanTrap, the capture of spans (logger/span.py)          *)
(*   SpecShield   the shielded RPC handler (rpc/restrpc/http/server.py)    *)
(*   SpecPika     the AMQP connection and publish (mq/pika.py)             *)
(***************************************************************************)
EXTENDS Integers, Sequences, FiniteSets, TLC

VARIABLES
    \* ---- Application (src/ipapp/app.py)
    components,     \* Application._components: the names, in registration order
    stop_deps,      \* Application._stop_deps: name -> stop_after list
    stopped,        \* Application._stopped
    start_stamp,    \* Application._start_stamp: "none" | "set"
    add_result,     \* outcome of the last add(): "none" | "ok" | "UserWarning"
    logger_started, \* Logger._started
    logger_start,   \* logger.start(): "none" | "running" | "done" | "failed"
    logger_stop,    \* logger.stop():  "none" | "running" | "done" | "failed"
    prep,           \* per component, its prepare(): "none" | "running" | "done" | "failed"
    strt,           \* per component, its start()
    stp,            \* per component, its stop()
    stop_calls,     \* per component, how many times its stop() was awaited
    startPc,        \* Application.start(): "idle" | "logger" | "prepare" | "start" | "done" | "raised"
    startErr,       \* the exception start() raised: "none" | "PrepareError" | "Other"
    stopPc,         \* Application.stop(): "idle" | "comps" | "logger" | "done" | "raised"
    stopPlan,       \* the components stop() still has to reach, in the order of its walk
    runPc,          \* Application.run(): "none" | "start" | "forever" | "finally" | "returned" | "raised"
    rc,             \* the value run() returns: -1 while it has not returned
    \* ---- Span (src/ipapp/logger/span.py)
    nspans,         \* the spans created so far are 1..nspans, in creation order
    parent,         \* Span.parent: 0 for None
    skip,           \* Span._skip
    finished,       \* the number of finish() calls: _finish_stamp is set iff > 0
    is_handled,     \* Span._is_handled
    handed,         \* the number of logger.handle_span(span) calls
    \* ---- Lock (src/ipapp/utils/lock.py) and the Redis server it talks to
    redis_key,      \* per key: 0 when unset, else the caller whose SET created it
    waiters,        \* Lock.waiters, per Lock instance: key -> futures, each named by its caller
    fut,            \* per caller, its future: "none" | "pending" | "done" | "cancelled"
    lpc,            \* per caller: "idle" | "set" | "wait" | "cancelling" | "holding" |
                    \*             "publish" | "publish_exc" (release() inside the
                    \*             __aexit__ of a block that raised)
    lkey,           \* per caller, the key of its acquire()/release()
    timed_out,      \* per caller in acquire(): est <= 0, the timeout of the call had
                    \* elapsed when est was last computed
    expired,        \* per caller: max_lock_time has elapsed since its SET
    inbox,          \* per Lock instance: the messages of channel 'locks' _reader has not read
    reader_alive,   \* per Lock instance: the _reader task has not ended
    queued,         \* per key, from a release(key) to the next successful SET: the
                    \* callers that were inside acquire(key) at the release and
                    \* have not left it
    \* ---- Task scheduler (spec 4.7): one task row and the dispatchers competing for it
    in_task,        \* the row is in relation task
    in_arch,        \* the row is in relation task_arch
    status,         \* "none" | "pending" | "in_progress" | "retry" | "successful" |
                    \* "error" | "canceled"
    attempts,       \* the attempt count of the row (retries + 1 once it was picked)
    max_retries,    \* max_retries of the row
    due,            \* eta <= now
    row_lock,       \* the advisory lock of the row: 0 when free, else its dispatcher
    dpc,            \* per dispatcher: "idle" | "selected" | "locked" | "checked" |
                    \*                 "running" | "ok" | "failed" | "resolved"
    task_log,       \* the rows of task_log: <<attempt, result>>
    started,        \* the attempt numbers the task body was started with, in order
    \* ---- Logger.handle_span (src/ipapp/logger/logger.py)
    n_adapters,     \* len(Logger.adapters)
    n_callbacks,    \* len(Logger._before_handle_callbacks)
    hs_pc,          \* handle_span(span): "idle" | "callbacks" | "adapters" |
                    \*                    "returned" | "raised"
    hs_i,           \* the position of the running loop of handle_span
    cb_called,      \* the callbacks called with the span
    received,       \* the adapters whose handle(span) was called
    failed,         \* the adapters whose handle(span) raised
    logged,         \* the adapters whose exception went to app.log_err
    \* ---- JSON-RPC batch (spec 4.6)
    batch,          \* the envelopes of the request array: "call" | "notify" |
                    \*                                     "invalid"
    sub,            \* per envelope, its execution: "none" | "running" | "done"
    finish_order,   \* the positions of the envelopes, in the order they completed
    response,       \* the response array: the position each element answers
    batch_pc,       \* the batch request: "idle" | "executing" | "responded"
    \* ---- RpcClientChannel (src/ipapp/rpc/mq/pika.py)
    futs,           \* RpcClientChannel._futs: the correlation ids it holds
    call_fut,       \* per call, its future: "none" | "pending" | "result" |
                    \*                       "exception" | "cancelled"
    cpc,            \* per call, call(): "idle" | "publish" | "sent" | "wait" |
                    \*   "timer" | "cancelling" | "returned" | "RpcError" |
                    \*   "TimeoutError" | "PublishError"
    resolved_by,    \* per call, the correlation id of the reply that resolved
                    \* its future, 0 when none did
    requests,       \* the correlation ids of the requests in the server's queue
    replies,        \* the replies in the reply queue: <<correlation id, code>>
    \* ---- Span.to_headers / Span.from_headers (src/ipapp/logger/span.py)
    sp,             \* the span S of this process: trace_id, id, parent_id, skip
    hdrs,           \* the headers on the wire: header name -> value
    hdr_from,       \* where hdrs come from: "none" | "span" | "foreign"
    sent,           \* S as it was when to_headers() made hdrs
    sp2,            \* the span from_headers(hdrs) returned
    \* ---- PostRpcExecutor.exec (src/ipapp/rpc/post_rpc/main.py)
    rest_pc,        \* exec(): "idle" | "parse" | "exec" | "executed" | "returned"
    req_body,       \* the request body: "bad_json" | "not_dict" | "empty_dict" |
                    \*                   "dict"
    outcome,        \* what the method call did: "none" | "result_dict" |
                    \*   "result_other" | "user_error" | "exception" |
                    \*   "not_found" | "invalid_args"
    err_code,       \* the code attribute of the user-defined error raised
    resp_code,      \* _code of the error response, -1 for a success response
    status_code,    \* the HTTP status exec() returns, 0 before it returns
    \* ---- ServerHandler health check (src/ipapp/http/server.py)
    health_pc,      \* the request: "idle" | "checking" | "checked" |
                    \*              "responded" | "done"
    http_method,    \* "GET" | "HEAD"
    is_sick,        \* result["is_sick"] of _healthcheck()
    req_span,       \* the span req_wrapper made for the request, 0 if none
    healthy,        \* the request spans whose health check found no sick component
    \* ---- SpanTrap (src/ipapp/logger/span.py)
    trap_pc,        \* the trap: "new" | "entered" | "exited"
    trap_cls,       \* SpanTrap._cls
    trap_from,      \* the number of spans entered before the trap was
    trap_span,      \* SpanTrap._span: the position in span_log of the span, 0 for None
    span_log,       \* the classes of the spans entered so far, in order
    \* ---- shielded RPC handler (src/ipapp/rpc/restrpc/http/server.py)
    sh_pc,          \* the HTTP server: "new" | "serving" | "stopping" | "stopped"
    cfg_shield,     \* RestRpcHttpHandlerConfig.shield
    outer,          \* per request, aiohttp's handler task running rpc_handler
    inner,          \* per request, the invocation: the _handle coroutine
    \* ---- Pika (src/ipapp/mq/pika.py)
    cn_pc,          \* _connect: "idle" | "loop" | "done" | "raised"
    cn_max,         \* the max_attempts argument, -1 for None
    attempt,        \* the attempt counter of _connect
    conn_ok,        \* the last _conn.connect() succeeded
    n_chans,        \* the PikaChannel objects made so far for the one channel name
    registered,     \* the PikaChannel of that name in Pika._channels, 0 for none
    ch_closed,      \* per PikaChannel object, _ch.is_closed
    pub_pc,         \* publish: "idle" | "sleep" | "published" | "timeout" | "recursion"
    pub_via         \* the PikaChannel whose basic_publish sent the message, 0 for none

varsApp == <<components, stop_deps, stopped, start_stamp, add_result,
             logger_started, logger_start, logger_stop, prep, strt, stp,
             stop_calls,
             startPc, startErr, stopPc, stopPlan, runPc, rc>>

varsSpan == <<nspans, parent, skip, finished, is_handled, handed>>

varsLock == <<redis_key, waiters, fut, lpc, lkey, timed_out, expired, inbox,
              reader_alive, queued>>

varsTask == <<in_task, in_arch, status, attempts, max_retries, due, row_lock, dpc,
              task_log, started>>

varsLogger == <<n_adapters, n_callbacks, hs_pc, hs_i, cb_called, received, failed,
                logged>>

varsBatch == <<batch, sub, finish_order, response, batch_pc>>

varsRpc == <<futs, call_fut, cpc, resolved_by, requests, replies>>

varsHeaders == <<sp, hdrs, hdr_from, sent, sp2>>

varsRest == <<rest_pc, req_body, outcome, err_code, resp_code, status_code>>

varsHealth == <<health_pc, http_method, is_sick, req_span, healthy>>

varsTrap == <<trap_pc, trap_cls, trap_from, trap_span, span_log>>

varsShield == <<sh_pc, cfg_shield, outer, inner>>

varsPika == <<cn_pc, cn_max, attempt, conn_ok, n_chans, registered, ch_closed, pub_pc, pub_via>>

vars == <<varsApp, varsSpan, varsLock, varsTask, varsLogger, varsBatch, varsRpc, varsHeaders, varsRest, varsHealth, varsTrap, varsShield, varsPika>>

\* ---- bounds
MaxComps == 3
MaxSpans == 3
MaxFinish == 2
MaxCallers == 3
MaxInbox == 1
MaxDispatchers == 2
MaxRetries == 2
MaxAdapters == 3
MaxCallbacks == 2
MaxBatch == 3
MaxCalls == 3
MaxErrCode == 1000
MaxAttempts == 3
MaxChannels == 3
RecursionLimit == 8
MaxRequests == 3
MaxEntered == 3

Names == 1..MaxComps

Range(s) == {s[i] : i \in DOMAIN s}

\* A set of names as a list, in ascending order.
RECURSIVE AscSeq(_)
AscSeq(S) ==
    IF S = {} THEN <<>>
    ELSE LET least == CHOOSE x \in S : \A y \in S : x <= y
         IN  <<least>> \o AscSeq(S \ {least})

\* The stop_after arguments add() is called with: any set of names.
StopAfterLists == {AscSeq(S) : S \in SUBSET Names}

Errors == {"PrepareError", "Other"}

(***************************************************************************)
(* Application                                                             *)
(***************************************************************************)

InitApp ==
    /\ components = <<>>
    /\ stop_deps = [n \in Names |-> <<>>]
    /\ stopped = <<>>
    /\ start_stamp = "none"
    /\ add_result = "none"
    /\ logger_started = FALSE
    /\ logger_start = "none"
    /\ logger_stop = "none"
    /\ prep = [n \in Names |-> "none"]
    /\ strt = [n \in Names |-> "none"]
    /\ stp = [n \in Names |-> "none"]
    /\ stop_calls = [n \in Names |-> 0]
    /\ startPc = "idle"
    /\ startErr = "none"
    /\ stopPc = "idle"
    /\ stopPlan = <<>>
    /\ runPc = "none"
    /\ rc = -1

SpanIds == 1..MaxSpans

InitSpan ==
    /\ nspans = 0
    /\ parent = [s \in SpanIds |-> 0]
    /\ skip = [s \in SpanIds |-> FALSE]
    /\ finished = [s \in SpanIds |-> 0]
    /\ is_handled = [s \in SpanIds |-> FALSE]
    /\ handed = [s \in SpanIds |-> 0]

Callers == 1..MaxCallers
Keys == {"k1"}
Insts == {"lock1", "lock2"}

\* The Lock instance a caller uses: two instances on one Redis.
InstOf(c) == IF c % 2 = 1 THEN "lock1" ELSE "lock2"

InitLock ==
    /\ redis_key = [k \in Keys |-> 0]
    /\ waiters = [i \in Insts |-> << >>]
    /\ fut = [c \in Callers |-> "none"]
    /\ lpc = [c \in Callers |-> "idle"]
    /\ lkey = [c \in Callers |-> "k1"]
    /\ timed_out = [c \in Callers |-> FALSE]
    /\ expired = [c \in Callers |-> FALSE]
    /\ inbox = [i \in Insts |-> <<>>]
    /\ reader_alive = [i \in Insts |-> TRUE]
    /\ queued = [k \in Keys |-> {}]

Dispatchers == 1..MaxDispatchers

InitTask ==
    /\ in_task = FALSE
    /\ in_arch = FALSE
    /\ status = "none"
    /\ attempts = 0
    /\ max_retries = 0
    /\ due = FALSE
    /\ row_lock = 0
    /\ dpc = [d \in Dispatchers |-> "idle"]
    /\ task_log = <<>>
    /\ started = <<>>

InitLogger ==
    /\ n_adapters = 0
    /\ n_callbacks = 0
    /\ hs_pc = "idle"
    /\ hs_i = 0
    /\ cb_called = {}
    /\ received = {}
    /\ failed = {}
    /\ logged = {}

Positions == 1..MaxBatch

EnvelopeKinds == {"call", "notify", "invalid"}

InitBatch ==
    /\ batch = <<>>
    /\ sub = [i \in Positions |-> "none"]
    /\ finish_order = <<>>
    /\ response = <<>>
    /\ batch_pc = "idle"

\* A call is named by its correlation id, a fresh uuid4 per call.
Calls == 1..MaxCalls

InitRpc ==
    /\ futs = {}
    /\ call_fut = [c \in Calls |-> "none"]
    /\ cpc = [c \in Calls |-> "idle"]
    /\ resolved_by = [c \in Calls |-> 0]
    /\ requests = {}
    /\ replies = {}

\* A parent_id that is None, and the slot of a span not made yet.
NoneVal == "<None>"

NoSpan == [trace_id |-> NoneVal, id |-> NoneVal, parent_id |-> NoneVal,
           skip |-> FALSE]

NoHeaders == [n \in {} |-> ""]

InitHeaders ==
    /\ sp = NoSpan
    /\ hdrs = NoHeaders
    /\ hdr_from = "none"
    /\ sent = NoSpan
    /\ sp2 = NoSpan

InitRest ==
    /\ rest_pc = "idle"
    /\ req_body = "dict"
    /\ outcome = "none"
    /\ err_code = 0
    /\ resp_code = -1
    /\ status_code = 0

InitHealth ==
    /\ health_pc = "idle"
    /\ http_method = "GET"
    /\ is_sick = FALSE
    /\ req_span = 0
    /\ healthy = {}

SpanClasses == {"Span", "AmqpSpan", "PgSpan"}

InitTrap ==
    /\ trap_pc = "new"
    /\ trap_cls = "none"
    /\ trap_from = 0
    /\ trap_span = 0
    /\ span_log = <<>>

RequestIds == 1..MaxRequests

InitShield ==
    /\ sh_pc = "new"
    /\ cfg_shield = FALSE
    /\ outer = [r \in RequestIds |-> "none"]
    /\ inner = [r \in RequestIds |-> "none"]

ChannelIds == 1..MaxChannels

InitPika ==
    /\ cn_pc = "idle"
    /\ cn_max = 0
    /\ attempt = 0
    /\ conn_ok = FALSE
    /\ n_chans = 0
    /\ registered = 0
    /\ ch_closed = [o \in ChannelIds |-> FALSE]
    /\ pub_pc = "idle"
    /\ pub_via = 0

Registered == Range(components)

\* add(): the name must be new and every stop_after name registered already.
AddAccepts(name, stop_after) ==
    /\ name \notin Registered
    /\ \A i \in DOMAIN stop_after : stop_after[i] \in Registered

\* add(name, comp, stop_after), called while the application is being built.
\* The name is a registered one or the next fresh one.  The UserWarning of
\* a refused add() ends the construction of the application.
Add(name, stop_after) ==
    /\ startPc = "idle" /\ stopPc = "idle" /\ runPc = "none"
    /\ add_result # "UserWarning"
    /\ name <= Len(components) + 1
    /\ IF AddAccepts(name, stop_after)
       THEN /\ components' = Append(components, name)
            /\ stop_deps' = [stop_deps EXCEPT ![name] = stop_after]
            /\ add_result' = "ok"
       ELSE /\ add_result' = "UserWarning"
            /\ UNCHANGED <<components, stop_deps>>
    /\ UNCHANGED <<stopped, start_stamp, logger_started, logger_start,
                   logger_stop, prep, strt, stp, stop_calls, startPc, startErr, stopPc,
                   stopPlan, runPc, rc>>

\* ---- start()

\* start() up to its first suspension: logger.start() sets _started and
\* awaits the adapters.
StartEnter ==
    /\ startPc' = "logger"
    /\ logger_started' = TRUE
    /\ logger_start' = "running"

\* await app.start() by the application's own code (the tests do so).
StartCall ==
    /\ startPc = "idle" /\ runPc = "none" /\ stopPc = "idle"
    /\ add_result # "UserWarning"
    /\ StartEnter
    /\ UNCHANGED <<components, stop_deps, stopped, start_stamp, add_result,
                   logger_stop, prep, strt, stp, stop_calls, startErr, stopPc, stopPlan,
                   runPc, rc>>

\* run(): loop.run_until_complete(self.start()).
RunCall ==
    /\ startPc = "idle" /\ runPc = "none" /\ stopPc = "idle"
    /\ add_result # "UserWarning"
    /\ StartEnter
    /\ runPc' = "start"
    /\ UNCHANGED <<components, stop_deps, stopped, start_stamp, add_result,
                   logger_stop, prep, strt, stp, stop_calls, startErr, stopPc, stopPlan, rc>>

\* logger.start() returns: start() goes on to gather the prepare() calls.
LoggerStartOk ==
    /\ startPc = "logger" /\ logger_start = "running"
    /\ logger_start' = "done"
    /\ startPc' = "prepare"
    /\ UNCHANGED <<components, stop_deps, stopped, start_stamp, add_result,
                   logger_started, logger_stop, prep, strt, stp, stop_calls, startErr,
                   stopPc, stopPlan, runPc, rc>>

\* logger.start() raises: start() has no handler, the exception leaves it.
LoggerStartFail(e) ==
    /\ startPc = "logger" /\ logger_start = "running"
    /\ logger_start' = "failed"
    /\ startPc' = "raised"
    /\ startErr' = e
    /\ UNCHANGED <<components, stop_deps, stopped, start_stamp, add_result,
                   logger_started, logger_stop, prep, strt, stp, stop_calls, stopPc,
                   stopPlan, runPc, rc>>

\* The prepare() calls were handed to gather: logger.start() has returned.
PrepareGathered == logger_start = "done"

\* A task gather made for comp.prepare() starts running.  gather does not
\* cancel the other tasks when one fails, so this does not read startPc.
PrepareBegin(c) ==
    /\ PrepareGathered
    /\ c \in Registered /\ prep[c] = "none"
    /\ prep' = [prep EXCEPT ![c] = "running"]
    /\ UNCHANGED <<components, stop_deps, stopped, start_stamp, add_result,
                   logger_started, logger_start, logger_stop, strt, stp, stop_calls,
                   startPc, startErr, stopPc, stopPlan, runPc, rc>>

PrepareEnd(c, ok) ==
    /\ prep[c] = "running"
    /\ prep' = [prep EXCEPT ![c] = IF ok THEN "done" ELSE "failed"]
    /\ UNCHANGED <<components, stop_deps, stopped, start_stamp, add_result,
                   logger_started, logger_start, logger_stop, strt, stp, stop_calls,
                   startPc, startErr, stopPc, stopPlan, runPc, rc>>

\* start() going on as soon as no prepare() has failed, without awaiting them.
PrepareNotAwaited == \A c \in Registered : prep[c] # "failed"

\* await gather(prepare...) returns once every prepare() has returned.
AllPrepared == \A c \in Registered : prep[c] = "done"

\* start() resumes after the prepare phase: it records _start_stamp and
\* gathers the start() calls.
StartAfterPrepare ==
    /\ startPc = "prepare"
    /\ AllPrepared
    /\ start_stamp' = "set"
    /\ startPc' = "start"
    /\ UNCHANGED <<components, stop_deps, stopped, add_result, logger_started,
                   logger_start, logger_stop, prep, strt, stp, stop_calls, startErr,
                   stopPc, stopPlan, runPc, rc>>

\* gather raises the first exception of a prepare(): start() raises it.
StartPrepareRaise(e) ==
    /\ startPc = "prepare"
    /\ \E c \in Registered : prep[c] = "failed"
    /\ startPc' = "raised"
    /\ startErr' = e
    /\ UNCHANGED <<components, stop_deps, stopped, start_stamp, add_result,
                   logger_started, logger_start, logger_stop, prep, strt, stp, stop_calls,
                   stopPc, stopPlan, runPc, rc>>

\* The start() calls were handed to gather.
StartGathered == start_stamp = "set"

ComponentStartBegin(c) ==
    /\ StartGathered
    /\ c \in Registered /\ strt[c] = "none"
    /\ strt' = [strt EXCEPT ![c] = "running"]
    /\ UNCHANGED <<components, stop_deps, stopped, start_stamp, add_result,
                   logger_started, logger_start, logger_stop, prep, stp, stop_calls,
                   startPc, startErr, stopPc, stopPlan, runPc, rc>>

ComponentStartEnd(c, ok) ==
    /\ strt[c] = "running"
    /\ strt' = [strt EXCEPT ![c] = IF ok THEN "done" ELSE "failed"]
    /\ UNCHANGED <<components, stop_deps, stopped, start_stamp, add_result,
                   logger_started, logger_start, logger_stop, prep, stp, stop_calls,
                   startPc, startErr, stopPc, stopPlan, runPc, rc>>

\* await gather(start...) returns: start() returns.
StartDone ==
    /\ startPc = "start"
    /\ \A c \in Registered : strt[c] = "done"
    /\ startPc' = "done"
    /\ UNCHANGED <<components, stop_deps, stopped, start_stamp, add_result,
                   logger_started, logger_start, logger_stop, prep, strt, stp, stop_calls,
                   startErr, stopPc, stopPlan, runPc, rc>>

StartStartRaise(e) ==
    /\ startPc = "start"
    /\ \E c \in Registered : strt[c] = "failed"
    /\ startPc' = "raised"
    /\ startErr' = e
    /\ UNCHANGED <<components, stop_deps, stopped, start_stamp, add_result,
                   logger_started, logger_start, logger_stop, prep, strt, stp, stop_calls,
                   stopPc, stopPlan, runPc, rc>>

\* ---- stop()

\* _stop_comp(name) with every stop() returning: the value of _stopped after it.
RECURSIVE StopCompWalk(_, _)
RECURSIVE StopDepsWalk(_, _)
StopCompWalk(name, st) ==
    IF name \in Range(st) THEN st
    ELSE Append(StopDepsWalk(stop_deps[name], st), name)

StopDepsWalk(deps, st) ==
    IF deps = <<>> THEN st
    ELSE StopDepsWalk(Tail(deps), StopCompWalk(Head(deps), st))

RECURSIVE StopLoopWalk(_, _)
StopLoopWalk(cs, st) ==
    IF cs = <<>> THEN st
    ELSE StopLoopWalk(Tail(cs), StopCompWalk(Head(cs), st))

\* A teardown in reverse registration order that does not read stop_after.
StopOrderReversed ==
    LET todo == [i \in 1..Len(components) |-> components[Len(components) + 1 - i]]
    IN  SelectSeq(todo, LAMBDA n : n \notin Range(stopped))

\* The components stop() goes on to stop, in order: the loop over
\* _components with _stop_comp's walk of the stop_after names first.
StopOrder ==
    LET all == StopLoopWalk(components, stopped)
    IN  SubSeq(all, Len(stopped) + 1, Len(all))

\* stop() up to its first suspension.
StopEnter ==
    /\ stopPc' = "comps"
    /\ stopPlan' = StopOrder

\* await app.stop() by the application's own code, after start() ended.
StopCall ==
    /\ runPc = "none" /\ stopPc = "idle"
    /\ startPc \in {"done", "raised"}
    /\ StopEnter
    /\ UNCHANGED <<components, stop_deps, stopped, start_stamp, add_result,
                   logger_started, logger_start, logger_stop, prep, strt, stp, stop_calls,
                   startPc, startErr, runPc, rc>>

\* _stop_comp reaches await self._components[name].stop().
ComponentStopBegin ==
    /\ stopPc = "comps" /\ stopPlan # <<>>
    /\ stp[Head(stopPlan)] # "running"
    /\ stp' = [stp EXCEPT ![Head(stopPlan)] = "running"]
    /\ stop_calls' = [stop_calls EXCEPT ![Head(stopPlan)] = @ + 1]
    /\ UNCHANGED <<components, stop_deps, stopped, start_stamp, add_result,
                   logger_started, logger_start, logger_stop, prep, strt,
                   startPc, startErr, stopPc, stopPlan, runPc, rc>>

\* The component's stop() returns: _stopped.append(name).
ComponentStopOk ==
    /\ stopPc = "comps" /\ stopPlan # <<>>
    /\ stp[Head(stopPlan)] = "running"
    /\ stp' = [stp EXCEPT ![Head(stopPlan)] = "done"]
    /\ stop_calls' = stop_calls
    /\ stopped' = Append(stopped, Head(stopPlan))
    /\ stopPlan' = Tail(stopPlan)
    /\ UNCHANGED <<components, stop_deps, start_stamp, add_result,
                   logger_started, logger_start, logger_stop, prep, strt,
                   startPc, startErr, stopPc, runPc, rc>>

\* The component's stop() raises: neither _stop_comp nor stop() catches it.
ComponentStopFail ==
    /\ stopPc = "comps" /\ stopPlan # <<>>
    /\ stp[Head(stopPlan)] = "running"
    /\ stp' = [stp EXCEPT ![Head(stopPlan)] = "failed"]
    /\ stop_calls' = stop_calls
    /\ stopPc' = "raised"
    /\ stopPlan' = <<>>
    /\ UNCHANGED <<components, stop_deps, stopped, start_stamp, add_result,
                   logger_started, logger_start, logger_stop, prep, strt,
                   startPc, startErr, runPc, rc>>

\* _stop_logger() awaited without waiting for the loop over _components.
LoggerStopsAnyTime == TRUE

\* stop() reaches _stop_logger() when the loop over _components has ended.
ComponentLoopEnded == stopPlan = <<>>

\* _stop_logger(): logger.stop() raises UserWarning unless _started.
LoggerStopBegin ==
    /\ stopPc = "comps" /\ ComponentLoopEnded
    /\ IF logger_started
       THEN /\ logger_stop' = "running"
            /\ stopPc' = "logger"
       ELSE /\ logger_stop' = "failed"
            /\ stopPc' = "raised"
    /\ UNCHANGED <<components, stop_deps, stopped, start_stamp, add_result,
                   logger_started, logger_start, prep, strt, stp, stop_calls, startPc,
                   startErr, stopPlan, runPc, rc>>

LoggerStopEnd(ok) ==
    /\ stopPc = "logger" /\ logger_stop = "running"
    /\ logger_stop' = IF ok THEN "done" ELSE "failed"
    /\ stopPc' = IF ok THEN "done" ELSE "raised"
    /\ UNCHANGED <<components, stop_deps, stopped, start_stamp, add_result,
                   logger_started, logger_start, prep, strt, stp, stop_calls, startPc,
                   startErr, stopPlan, runPc, rc>>

\* ---- run()

\* run() after start() returned: run_forever() until GracefulExit, then
\* return 0 with the finally clause calling stop().
RunForeverExit ==
    /\ runPc = "start" /\ startPc = "done"
    /\ runPc' = "finally"
    /\ rc' = 0
    /\ StopEnter
    /\ UNCHANGED <<components, stop_deps, stopped, start_stamp, add_result,
                   logger_started, logger_start, logger_stop, prep, strt, stp, stop_calls,
                   startPc, startErr>>

\* run() after start() raised: PrepareError is caught and 1 returned, any
\* other exception passes through; the finally clause calls stop().
RunStartRaised ==
    /\ runPc = "start" /\ startPc = "raised"
    /\ runPc' = "finally"
    /\ rc' = IF startErr = "PrepareError" THEN 1 ELSE -1
    /\ StopEnter
    /\ UNCHANGED <<components, stop_deps, stopped, start_stamp, add_result,
                   logger_started, logger_start, logger_stop, prep, strt, stp, stop_calls,
                   startPc, startErr>>

\* The finally clause ends: run() returns rc, or raises what start() or
\* stop() raised.
RunEnd ==
    /\ runPc = "finally" /\ stopPc \in {"done", "raised"}
    /\ runPc' = IF stopPc = "done" /\ rc >= 0 THEN "returned" ELSE "raised"
    /\ UNCHANGED <<components, stop_deps, stopped, start_stamp, add_result,
                   logger_started, logger_start, logger_stop, prep, strt, stp, stop_calls,
                   startPc, startErr, stopPc, stopPlan, rc>>

(***************************************************************************)
(* Application: the claims                                                 *)
(***************************************************************************)

\* C3: during stop(), the stop of every name in X's stop_after list has
\* completed before the stop of X begins.
C3_StopAfterDeps ==
    \A x \in Registered : \A i \in DOMAIN stop_deps[x] :
        stp[x] # "none" => stp[stop_deps[x][i]] = "done"

\* A component registered with a stop_after name has been stopped.
C3_Witness ==
    \E x \in Registered : stop_deps[x] # <<>> /\ stp[x] = "done"

\* C8: start() is phased: logger.start has returned before any prepare()
\* begins, every prepare() has returned before any start() begins, and
\* _start_stamp is set after the prepare phase and before the start phase.
C8_StartPhased ==
    /\ (\E c \in Names : prep[c] # "none") => logger_start = "done"
    /\ (\E c \in Names : strt[c] # "none") =>
           /\ start_stamp = "set"
           /\ \A c \in Registered : prep[c] = "done"
    /\ start_stamp = "set" =>
           /\ logger_start = "done"
           /\ \A c \in Registered : prep[c] = "done"

\* Two components went through both phases and start() returned.
C8_Witness ==
    /\ Len(components) >= 2
    /\ startPc = "done"
    /\ \A c \in Registered : strt[c] = "done"

\* C9: when start() raises, the application has been torn down already:
\* every component start() touched has been stopped, and the logger too.
C9_TornDownBeforeRaise ==
    startPc = "raised" =>
        /\ logger_stop = "done"
        /\ \A c \in Registered : prep[c] # "none" => stp[c] = "done"

\* C10: a component's stop() that raises does not make stop() raise, and
\* stop() still stops the other components and the logger.
C10_StopErrorsSwallowed ==
    (\E c \in Names : stp[c] = "failed") =>
        /\ stopPc # "raised"
        /\ stopPc = "done" =>
               /\ logger_stop = "done"
               /\ \A c \in Registered : stp[c] # "none"

\* C19: add() fails with ConfigurationError when the name is already
\* registered or a stop_after name is not registered: an add() that has
\* failed has failed with ConfigurationError.
C19_AddFailsWithConfigurationError ==
    add_result \notin {"none", "ok"} => add_result = "ConfigurationError"

\* C21: the logger is stopped last: logger.stop() has begun only if the
\* stop() of every registered component has completed.
C21_LoggerStoppedLast ==
    logger_stop # "none" => \A c \in Registered : stp[c] = "done"

\* logger.stop() is running after two components, one named in the other's
\* stop_after list, were stopped.
C21_Witness ==
    /\ logger_stop = "running"
    /\ Len(components) >= 2
    /\ \E x \in Registered : stop_deps[x] # <<>>
    /\ \A c \in Registered : stp[c] = "done"

\* C22: a component's stop() is invoked only after that component's
\* start() was invoked: stop is skipped for a component never started.
C22_StopOnlyAfterStart ==
    \A c \in Names : stop_calls[c] > 0 => strt[c] # "none"

\* C23: run() returns 0 on clean shutdown and returns 1 when the
\* prepare() or start() of a component failed; stated for the runs whose
\* stop() returned normally.
C23_RunExitCodes ==
    (runPc \in {"returned", "raised"} /\ stopPc = "done") =>
        /\ startPc = "done" => (runPc = "returned" /\ rc = 0)
        /\ (/\ startPc = "raised"
            /\ \E c \in Registered : prep[c] = "failed" \/ strt[c] = "failed")
               => (runPc = "returned" /\ rc = 1)

\* C20: each registered component's stop() is invoked exactly once per
\* shutdown: never twice, and once stop() has ended (returned or raised)
\* every component registered when it began has had its stop() invoked.
C20_StopInvokedExactlyOnce ==
    /\ \A c \in Names : stop_calls[c] <= 1
    /\ stopPc \in {"done", "raised"} =>
           \A c \in Registered : stop_calls[c] = 1

NextApp ==
    \/ \E name \in Names, sa \in StopAfterLists : Add(name, sa) /\ UNCHANGED <<varsSpan, varsLock, varsTask, varsLogger, varsBatch, varsRpc, varsHeaders, varsRest, varsHealth, varsTrap, varsShield, varsPika>>
    \/ StartCall /\ UNCHANGED <<varsSpan, varsLock, varsTask, varsLogger, varsBatch, varsRpc, varsHeaders, varsRest, varsHealth, varsTrap, varsShield, varsPika>>
    \/ RunCall /\ UNCHANGED <<varsSpan, varsLock, varsTask, varsLogger, varsBatch, varsRpc, varsHeaders, varsRest, varsHealth, varsTrap, varsShield, varsPika>>
    \/ LoggerStartOk /\ UNCHANGED <<varsSpan, varsLock, varsTask, varsLogger, varsBatch, varsRpc, varsHeaders, varsRest, varsHealth, varsTrap, varsShield, varsPika>>
    \/ \E e \in Errors : LoggerStartFail(e) /\ UNCHANGED <<varsSpan, varsLock, varsTask, varsLogger, varsBatch, varsRpc, varsHeaders, varsRest, varsHealth, varsTrap, varsShield, varsPika>>
    \/ \E c \in Names : PrepareBegin(c) /\ UNCHANGED <<varsSpan, varsLock, varsTask, varsLogger, varsBatch, varsRpc, varsHeaders, varsRest, varsHealth, varsTrap, varsShield, varsPika>>
    \/ \E c \in Names, ok \in BOOLEAN : PrepareEnd(c, ok) /\ UNCHANGED <<varsSpan, varsLock, varsTask, varsLogger, varsBatch, varsRpc, varsHeaders, varsRest, varsHealth, varsTrap, varsShield, varsPika>>
    \/ StartAfterPrepare /\ UNCHANGED <<varsSpan, varsLock, varsTask, varsLogger, varsBatch, varsRpc, varsHeaders, varsRest, varsHealth, varsTrap, varsShield, varsPika>>
    \/ \E e \in Errors : StartPrepareRaise(e) /\ UNCHANGED <<varsSpan, varsLock, varsTask, varsLogger, varsBatch, varsRpc, varsHeaders, varsRest, varsHealth, varsTrap, varsShield, varsPika>>
    \/ \E c \in Names : ComponentStartBegin(c) /\ UNCHANGED <<varsSpan, varsLock, varsTask, varsLogger, varsBatch, varsRpc, varsHeaders, varsRest, varsHealth, varsTrap, varsShield, varsPika>>
    \/ \E c \in Names, ok \in BOOLEAN : ComponentStartEnd(c, ok) /\ UNCHANGED <<varsSpan, varsLock, varsTask, varsLogger, varsBatch, varsRpc, varsHeaders, varsRest, varsHealth, varsTrap, varsShield, varsPika>>
    \/ StartDone /\ UNCHANGED <<varsSpan, varsLock, varsTask, varsLogger, varsBatch, varsRpc, varsHeaders, varsRest, varsHealth, varsTrap, varsShield, varsPika>>
    \/ \E e \in Errors : StartStartRaise(e) /\ UNCHANGED <<varsSpan, varsLock, varsTask, varsLogger, varsBatch, varsRpc, varsHeaders, varsRest, varsHealth, varsTrap, varsShield, varsPika>>
    \/ StopCall /\ UNCHANGED <<varsSpan, varsLock, varsTask, varsLogger, varsBatch, varsRpc, varsHeaders, varsRest, varsHealth, varsTrap, varsShield, varsPika>>
    \/ ComponentStopBegin /\ UNCHANGED <<varsSpan, varsLock, varsTask, varsLogger, varsBatch, varsRpc, varsHeaders, varsRest, varsHealth, varsTrap, varsShield, varsPika>>
    \/ ComponentStopOk /\ UNCHANGED <<varsSpan, varsLock, varsTask, varsLogger, varsBatch, varsRpc, varsHeaders, varsRest, varsHealth, varsTrap, varsShield, varsPika>>
    \/ ComponentStopFail /\ UNCHANGED <<varsSpan, varsLock, varsTask, varsLogger, varsBatch, varsRpc, varsHeaders, varsRest, varsHealth, varsTrap, varsShield, varsPika>>
    \/ LoggerStopBegin /\ UNCHANGED <<varsSpan, varsLock, varsTask, varsLogger, varsBatch, varsRpc, varsHeaders, varsRest, varsHealth, varsTrap, varsShield, varsPika>>
    \/ \E ok \in BOOLEAN : LoggerStopEnd(ok) /\ UNCHANGED <<varsSpan, varsLock, varsTask, varsLogger, varsBatch, varsRpc, varsHeaders, varsRest, varsHealth, varsTrap, varsShield, varsPika>>
    \/ RunForeverExit /\ UNCHANGED <<varsSpan, varsLock, varsTask, varsLogger, varsBatch, varsRpc, varsHeaders, varsRest, varsHealth, varsTrap, varsShield, varsPika>>
    \/ RunStartRaised /\ UNCHANGED <<varsSpan, varsLock, varsTask, varsLogger, varsBatch, varsRpc, varsHeaders, varsRest, varsHealth, varsTrap, varsShield, varsPika>>
    \/ RunEnd /\ UNCHANGED <<varsSpan, varsLock, varsTask, varsLogger, varsBatch, varsRpc, varsHeaders, varsRest, varsHealth, varsTrap, varsShield, varsPika>>

(***************************************************************************)
(* Span                                                                    *)
(***************************************************************************)

Spans == 1..nspans

\* Span._children: the spans made by new_child on s, in creation order.
Children(s) == {t \in Spans : parent[t] = s}

RECURSIVE Descendants(_)
Descendants(s) == Children(s) \cup UNION {Descendants(c) : c \in Children(s)}

RECURSIVE Ancestors(_)
Ancestors(s) == IF parent[s] = 0 THEN {} ELSE {parent[s]} \cup Ancestors(parent[s])

RECURSIVE Root(_)
Root(s) == IF parent[s] = 0 THEN s ELSE Root(parent[s])

\* Span.new(): a root span.
New ==
    /\ nspans < MaxSpans
    /\ nspans' = nspans + 1
    /\ UNCHANGED <<parent, skip, finished, is_handled, handed>>

\* new_child() leaving the child unskipped.
NoInheritedSkip(p) == FALSE

\* The test "if self._skip: span.skip()" of new_child().
InheritedSkip(p) == skip[p]

\* p.new_child(): the child takes p's skip flag and joins p._children.
NewChild(p) ==
    /\ nspans < MaxSpans
    /\ p \in Spans
    /\ nspans' = nspans + 1
    /\ parent' = [parent EXCEPT ![nspans + 1] = p]
    /\ skip' = [skip EXCEPT ![nspans + 1] = InheritedSkip(p)]
    /\ UNCHANGED <<finished, is_handled, handed>>

\* s.skip(): s and, through _children, every descendant.
Skip(s) ==
    /\ s \in Spans
    /\ skip' = [t \in SpanIds |-> IF t = s \/ t \in Descendants(s) THEN TRUE ELSE skip[t]]
    /\ UNCHANGED <<nspans, parent, finished, is_handled, handed>>

\* A span handed whether its skip flag is set or not.
EmittedDespiteSkip(s) == TRUE

\* The test "not span._skip" of finish() and _handle_children().
Emitted(s) == ~skip[s]

\* finish() handing the span over whatever the state of its parent.
HandlesAtEveryFinish(s) == TRUE

\* The test of finish(): the span is a root, or its parent is handled.
HandlesAtFinish(s) == parent[s] = 0 \/ is_handled[parent[s]]

\* finish() without the call of _handle_children.
WalkedOnlySelf(s) == {s}

\* _handle_children(span): the spans whose _children it goes through, span
\* first, then every finished child that is not skipped, recursively.
RECURSIVE Walked(_)
Walked(s) ==
    {s} \cup UNION {Walked(c) :
                       c \in {t \in Children(s) : finished[t] > 0 /\ Emitted(t)}}

\* The children _handle_children marks _is_handled: the finished ones.
Marked(s) == {c \in Spans : parent[c] \in Walked(s) /\ finished[c] > 0}

\* s.finish(): sets _finish_stamp; when s is a root or its parent is
\* handled, hands over the finished descendants it reaches and then s.
Finish(s) ==
    /\ s \in Spans
    /\ finished[s] < MaxFinish
    /\ finished' = [finished EXCEPT ![s] = @ + 1]
    /\ IF HandlesAtFinish(s)
       THEN /\ handed' = [t \in SpanIds |->
                   IF \/ t \in Walked(s) \ {s}
                      \/ t = s /\ Emitted(s)
                   THEN handed[t] + 1 ELSE handed[t]]
            /\ is_handled' = [t \in SpanIds |->
                   IF t = s \/ t \in Marked(s) THEN TRUE ELSE is_handled[t]]
       ELSE UNCHANGED <<handed, is_handled>>
    /\ UNCHANGED <<nspans, parent, skip>>

NextSpan ==
    \/ New /\ UNCHANGED <<varsApp, varsLock, varsTask, varsLogger, varsBatch, varsRpc, varsHeaders, varsRest, varsHealth, varsTrap, varsShield, varsPika>>
    \/ \E p \in SpanIds : NewChild(p) /\ UNCHANGED <<varsApp, varsLock, varsTask, varsLogger, varsBatch, varsRpc, varsHeaders, varsRest, varsHealth, varsTrap, varsShield, varsPika>>
    \/ \E s \in SpanIds : Skip(s) /\ UNCHANGED <<varsApp, varsLock, varsTask, varsLogger, varsBatch, varsRpc, varsHeaders, varsRest, varsHealth, varsTrap, varsShield, varsPika>>
    \/ \E s \in SpanIds : Finish(s) /\ UNCHANGED <<varsApp, varsLock, varsTask, varsLogger, varsBatch, varsRpc, varsHeaders, varsRest, varsHealth, varsTrap, varsShield, varsPika>>

(***************************************************************************)
(* Span: the claims                                                        *)
(***************************************************************************)

C6_HandedAfterRootFinished ==
    \A s \in Spans : handed[s] > 0 => finished[Root(s)] > 0

\* A span that finished before its root was handed over once the root finished.
C6_Witness ==
    \E s \in Spans : parent[s] # 0 /\ handed[s] > 0 /\ finished[Root(s)] = 1

\* C7: no step hands over a span whose skip flag is set.
C7_SkippedNeverHanded ==
    [][\A s \in SpanIds : handed'[s] > handed[s] => ~skip[s]]_vars

\* A skipped child is finished and marked handled under a root that was
\* handed over, and was not handed over itself.
C7_Witness ==
    \E s \in Spans :
        /\ parent[s] # 0 /\ skip[s] /\ finished[s] > 0 /\ is_handled[s]
        /\ handed[s] = 0 /\ handed[Root(s)] > 0

C16_SkipPropagates ==
    /\ [](\A s \in Spans : \A a \in Ancestors(s) : skip[a] => skip[s])
    /\ [][\A s \in Spans :
              (skip'[s] /\ ~skip[s]) => \A t \in Descendants(s) : skip'[t]]_vars

\* A skipped span with a skipped child and a skipped grandchild, the
\* grandchild's parent being unfinished.
C16_Witness ==
    \E s \in Spans :
        /\ parent[s] # 0 /\ parent[parent[s]] # 0
        /\ skip[s] /\ skip[parent[s]] /\ skip[parent[parent[s]]]
        /\ finished[parent[s]] = 0

Without(q, c) == SelectSeq(q, LAMBDA x : x # c)

\* The futures of waiters.get(key, []) of instance i; waiters[i] is the
\* dict, a function on the keys it holds.
WaitersOf(i, k) == IF k \in DOMAIN waiters[i] THEN waiters[i][k] ELSE <<>>

\* `if key not in waiters: waiters[key] = []` and waiters[key].append(fut)
\* of instance i.
WaitersAdd(i, k, c) ==
    [waiters EXCEPT ![i] =
        [x \in DOMAIN @ \cup {k} |-> IF x = k THEN Append(WaitersOf(i, k), c) ELSE @[x]]]

\* A finally clause that removes the future and leaves the emptied list.
WaitersRemoveKeepsList(i, k, c) ==
    [waiters EXCEPT ![i][k] = Without(@, c)]

\* The finally clause of acquire(): waiters[key].remove(fut), and
\* waiters.pop(key) when the list is empty.
WaitersRemove(i, k, c) ==
    [waiters EXCEPT ![i] =
        IF Without(@[k], c) = <<>>
        THEN [x \in DOMAIN @ \ {k} |-> @[x]]
        ELSE [@ EXCEPT ![k] = Without(@, c)]]

\* acquire(key, timeout) up to its first suspension: a new future joins
\* waiters[key] and the SET command is sent.
AcquireCall(c, k) ==
    /\ lpc[c] = "idle"
    /\ waiters' = WaitersAdd(InstOf(c), k, c)
    /\ fut' = [fut EXCEPT ![c] = "pending"]
    /\ lpc' = [lpc EXCEPT ![c] = "set"]
    /\ lkey' = [lkey EXCEPT ![c] = k]
    /\ timed_out' = [timed_out EXCEPT ![c] = FALSE]
    /\ UNCHANGED <<redis_key, expired, inbox, reader_alive, queued>>

\* wait_for(fut, est) with est <= 0 and fut done returns at once: est stays
\* <= 0, the old future leaves waiters[key], a new one joins it at the end
\* and SET is sent again.
Retry(c) ==
    /\ waiters' = [waiters EXCEPT ![InstOf(c)][lkey[c]] = Append(Without(@, c), c)]
    /\ fut' = [fut EXCEPT ![c] = "pending"]
    /\ lpc' = [lpc EXCEPT ![c] = "set"]
    /\ UNCHANGED <<lkey, timed_out, queued>>

\* acquire() raising TimeoutError with no finally clause: the future stays
\* in waiters[key].
RaiseTimeoutLeavesFuture(c) ==
    /\ fut' = [fut EXCEPT ![c] = "none"]
    /\ lpc' = [lpc EXCEPT ![c] = "idle"]
    /\ lkey' = [lkey EXCEPT ![c] = "k1"]
    /\ timed_out' = [timed_out EXCEPT ![c] = FALSE]
    /\ queued' = [queued EXCEPT ![lkey[c]] = @ \ {c}]
    /\ UNCHANGED waiters

\* acquire() raises TimeoutError through its finally clause.
RaiseTimeout(c) ==
    /\ waiters' = WaitersRemove(InstOf(c), lkey[c], c)
    /\ fut' = [fut EXCEPT ![c] = "none"]
    /\ lpc' = [lpc EXCEPT ![c] = "idle"]
    /\ lkey' = [lkey EXCEPT ![c] = "k1"]
    /\ timed_out' = [timed_out EXCEPT ![c] = FALSE]
    /\ queued' = [queued EXCEPT ![lkey[c]] = @ \ {c}]

\* The reply to SET is not None: acquire() returns through its finally
\* clause and the caller holds the key.
SetGranted(c) ==
    /\ waiters' = WaitersRemove(InstOf(c), lkey[c], c)
    /\ fut' = [fut EXCEPT ![c] = "none"]
    /\ lpc' = [lpc EXCEPT ![c] = "holding"]
    /\ timed_out' = [timed_out EXCEPT ![c] = FALSE]
    /\ queued' = [queued EXCEPT ![lkey[c]] = {}]
    /\ UNCHANGED lkey

\* The reply to SET is None: wait_for(fut, est).  With est <= 0 wait_for
\* returns at once when fut is done and else cancels it and raises
\* TimeoutError; with est > 0 the caller is suspended.
SetRefused(c) ==
    IF timed_out[c]
    THEN IF fut[c] = "done" THEN Retry(c) ELSE RaiseTimeout(c)
    ELSE /\ lpc' = [lpc EXCEPT ![c] = "wait"]
         /\ UNCHANGED <<waiters, fut, lkey, timed_out, queued>>

\* SET key 1 PX ttl NX creates the key only when it does not exist.
SetNXCreates(k) == redis_key[k] = 0

\* Redis executes SET key 1 PX ttl NX and acquire() resumes with the reply,
\* up to its return or its next suspension.
RedisSet(c) ==
    /\ lpc[c] = "set"
    /\ IF SetNXCreates(lkey[c])
       THEN /\ redis_key' = [redis_key EXCEPT ![lkey[c]] = c]
            /\ expired' = [expired EXCEPT ![c] = FALSE]
            /\ SetGranted(c)
       ELSE /\ SetRefused(c)
            /\ UNCHANGED <<redis_key, expired>>
    /\ UNCHANGED <<inbox, reader_alive>>

\* wait_for returns because the future got its result; est is computed
\* anew: late tells that the timeout of the call has elapsed (est <= 0).
Wake(c, late) ==
    /\ lpc[c] = "wait" /\ fut[c] = "done"
    /\ waiters' = [waiters EXCEPT ![InstOf(c)][lkey[c]] = Append(Without(@, c), c)]
    /\ fut' = [fut EXCEPT ![c] = "pending"]
    /\ lpc' = [lpc EXCEPT ![c] = "set"]
    /\ timed_out' = [timed_out EXCEPT ![c] = late]
    /\ UNCHANGED <<redis_key, lkey, expired, inbox, reader_alive, queued>>

\* wait_for resumes after est seconds with the future still pending: it
\* cancels the future and waits for the cancellation to be delivered.
TimeoutFire(c) ==
    /\ lpc[c] = "wait" /\ fut[c] = "pending"
    /\ fut' = [fut EXCEPT ![c] = "cancelled"]
    /\ lpc' = [lpc EXCEPT ![c] = "cancelling"]
    /\ queued' = [queued EXCEPT ![lkey[c]] = @ \ {c}]
    /\ UNCHANGED <<redis_key, waiters, lkey, timed_out, expired, inbox,
                   reader_alive>>

\* wait_for raises TimeoutError.
TimeoutRaise(c) ==
    /\ lpc[c] = "cancelling"
    /\ RaiseTimeout(c)
    /\ UNCHANGED <<redis_key, expired, inbox, reader_alive>>

\* acquire() ends by an exception at one of its awaits: the task is
\* cancelled, or redis.execute raises.  The finally clause runs.
AcquireAbort(c) ==
    /\ lpc[c] \in {"set", "wait"}
    /\ RaiseTimeout(c)
    /\ UNCHANGED <<redis_key, expired, inbox, reader_alive>>

\* release(key), first command: DEL key, whoever created the key.
ReleaseDel(c) ==
    /\ lpc[c] = "holding"
    /\ redis_key' = [redis_key EXCEPT ![lkey[c]] = 0]
    /\ queued' = [queued EXCEPT ![lkey[c]] =
                      {w \in Callers : lpc[w] \in {"set", "wait"} /\ lkey[w] = lkey[c]}]
    /\ lpc' = [lpc EXCEPT ![c] = "publish"]
    /\ UNCHANGED <<waiters, fut, lkey, timed_out, expired, inbox,
                   reader_alive>>

\* __aexit__ releasing only when the block raised nothing.
ReleasesOnCleanExit(exc) == ~exc

\* LockCtx.__aexit__ calls release(key) whatever exc_type is.
ReleasesOnExit(exc) == TRUE

\* The block of `async with lock(key)` ends, by an exception of its body
\* (exc) or not: __aexit__ runs release(key) up to its DEL; the exception
\* goes on once release() has returned.
CtxExit(c, exc) ==
    /\ lpc[c] = "holding"
    /\ IF ReleasesOnExit(exc)
       THEN /\ redis_key' = [redis_key EXCEPT ![lkey[c]] = 0]
            /\ queued' = [queued EXCEPT ![lkey[c]] =
                              {w \in Callers :
                                  lpc[w] \in {"set", "wait"} /\ lkey[w] = lkey[c]}]
            /\ lpc' = [lpc EXCEPT ![c] = IF exc THEN "publish_exc" ELSE "publish"]
            /\ UNCHANGED <<lkey, expired>>
       ELSE /\ lpc' = [lpc EXCEPT ![c] = "idle"]
            /\ lkey' = [lkey EXCEPT ![c] = "k1"]
            /\ expired' = [expired EXCEPT ![c] = FALSE]
            /\ UNCHANGED <<redis_key, queued>>
    /\ UNCHANGED <<waiters, fut, timed_out, inbox, reader_alive>>

\* release(key), second command: PUBLISH locks key reaches the Receiver of
\* every Lock instance whose _reader is running.
ReleasePublish(c) ==
    /\ lpc[c] \in {"publish", "publish_exc"}
    /\ \A i \in Insts : reader_alive[i] => Len(inbox[i]) < MaxInbox
    /\ inbox' = [i \in Insts |->
                    IF reader_alive[i] THEN Append(inbox[i], lkey[c]) ELSE inbox[i]]
    /\ lpc' = [lpc EXCEPT ![c] = "idle"]
    /\ lkey' = [lkey EXCEPT ![c] = "k1"]
    /\ expired' = [expired EXCEPT ![c] = FALSE]
    /\ UNCHANGED <<redis_key, waiters, fut, timed_out, reader_alive, queued>>

\* The futures of q that come before the first one that is not pending.
RECURSIVE PendingPrefix(_)
PendingPrefix(q) ==
    IF q = <<>> \/ fut[Head(q)] # "pending" THEN {}
    ELSE {Head(q)} \cup PendingPrefix(Tail(q))

\* _reader takes one message: fut.set_result(None) for every future of
\* waiters[msg], in list order.  set_result on a future that is done or
\* cancelled raises InvalidStateError, which ends the _reader task.
Reader(i) ==
    /\ reader_alive[i] /\ inbox[i] # <<>>
    /\ LET q == WaitersOf(i, Head(inbox[i]))
       IN  /\ fut' = [c \in Callers |->
                         IF c \in PendingPrefix(q) THEN "done" ELSE fut[c]]
           /\ reader_alive' = [reader_alive EXCEPT ![i] =
                                  \A n \in DOMAIN q : fut[q[n]] = "pending"]
    /\ inbox' = [inbox EXCEPT ![i] = Tail(@)]
    /\ UNCHANGED <<redis_key, waiters, lpc, lkey, timed_out, expired, queued>>

\* A SET without PX: max_lock_time elapses and the key stays.
ExpireKeepsKey(c) ==
    /\ lpc[c] = "holding"
    /\ ~expired[c]
    /\ expired' = [expired EXCEPT ![c] = TRUE]
    /\ UNCHANGED <<redis_key, waiters, fut, lpc, lkey, timed_out, inbox,
                   reader_alive, queued>>

\* max_lock_time elapses after the SET of caller c: Redis drops the key if
\* it is still the one c created.  Nothing is published.
Expire(c) ==
    /\ lpc[c] = "holding"
    /\ ~expired[c]
    /\ expired' = [expired EXCEPT ![c] = TRUE]
    /\ redis_key' = [redis_key EXCEPT ![lkey[c]] = IF @ = c THEN 0 ELSE @]
    /\ UNCHANGED <<waiters, fut, lpc, lkey, timed_out, inbox, reader_alive,
                   queued>>

NextLock ==
    \/ \E c \in Callers, k \in Keys : AcquireCall(c, k) /\ UNCHANGED <<varsApp, varsSpan, varsTask, varsLogger, varsBatch, varsRpc, varsHeaders, varsRest, varsHealth, varsTrap, varsShield, varsPika>>
    \/ \E c \in Callers : RedisSet(c) /\ UNCHANGED <<varsApp, varsSpan, varsTask, varsLogger, varsBatch, varsRpc, varsHeaders, varsRest, varsHealth, varsTrap, varsShield, varsPika>>
    \/ \E c \in Callers, late \in BOOLEAN : Wake(c, late) /\ UNCHANGED <<varsApp, varsSpan, varsTask, varsLogger, varsBatch, varsRpc, varsHeaders, varsRest, varsHealth, varsTrap, varsShield, varsPika>>
    \/ \E c \in Callers : TimeoutFire(c) /\ UNCHANGED <<varsApp, varsSpan, varsTask, varsLogger, varsBatch, varsRpc, varsHeaders, varsRest, varsHealth, varsTrap, varsShield, varsPika>>
    \/ \E c \in Callers : TimeoutRaise(c) /\ UNCHANGED <<varsApp, varsSpan, varsTask, varsLogger, varsBatch, varsRpc, varsHeaders, varsRest, varsHealth, varsTrap, varsShield, varsPika>>
    \/ \E c \in Callers : AcquireAbort(c) /\ UNCHANGED <<varsApp, varsSpan, varsTask, varsLogger, varsBatch, varsRpc, varsHeaders, varsRest, varsHealth, varsTrap, varsShield, varsPika>>
    \/ \E c \in Callers : ReleaseDel(c) /\ UNCHANGED <<varsApp, varsSpan, varsTask, varsLogger, varsBatch, varsRpc, varsHeaders, varsRest, varsHealth, varsTrap, varsShield, varsPika>>
    \/ \E c \in Callers, exc \in BOOLEAN :
           CtxExit(c, exc) /\ UNCHANGED <<varsApp, varsSpan, varsTask, varsLogger, varsBatch, varsRpc, varsHeaders, varsRest, varsHealth, varsTrap, varsShield, varsPika>>
    \/ \E c \in Callers : ReleasePublish(c) /\ UNCHANGED <<varsApp, varsSpan, varsTask, varsLogger, varsBatch, varsRpc, varsHeaders, varsRest, varsHealth, varsTrap, varsShield, varsPika>>
    \/ \E i \in Insts : Reader(i) /\ UNCHANGED <<varsApp, varsSpan, varsTask, varsLogger, varsBatch, varsRpc, varsHeaders, varsRest, varsHealth, varsTrap, varsShield, varsPika>>
    \/ \E c \in Callers : Expire(c) /\ UNCHANGED <<varsApp, varsSpan, varsTask, varsLogger, varsBatch, varsRpc, varsHeaders, varsRest, varsHealth, varsTrap, varsShield, varsPika>>

(***************************************************************************)
(* Lock: the claims                                                        *)
(***************************************************************************)

\* The callers that hold key k: acquire(k) returned, release(k) was not
\* called and max_lock_time has not elapsed since.
Holders(k) == {c \in Callers : lpc[c] = "holding" /\ lkey[c] = k /\ ~expired[c]}

\* C1: at most one caller holds a key at any time, the callers of every
\* Lock instance on the same Redis counted together.
C1_MutualExclusion == \A k \in Keys : Cardinality(Holders(k)) <= 1

\* C5: waiters are served in arrival order: the first caller to obtain a
\* key after a release of it is one of the callers that were inside
\* acquire at the release, never a caller that called acquire later while
\* one of them is still blocked waiting.
C5_FifoWakeup ==
    [][\A c \in Callers :
          (lpc[c] = "set" /\ lpc'[c] = "holding") =>
              ~(/\ c \notin queued[lkey[c]]
                /\ \E w \in queued[lkey[c]] : lpc[w] = "wait")]_vars

\* C33: release(key) frees only the hold of its caller: the key that a
\* caller created leaves Redis only by that caller's own release or by the
\* end of its own max_lock_time, never by the release of another caller.
C33_ReleaseFreesOwnHoldOnly ==
    [][\A k \in Keys :
          (redis_key[k] # 0 /\ redis_key'[k] = 0) =>
              LET o == redis_key[k]
              IN  \/ lpc[o] = "holding" /\ lpc'[o] \in {"publish", "publish_exc"}
                  \/ ~expired[o] /\ expired'[o]]_vars

\* A notification of key k is on its way to Lock instance i: a release of
\* k has deleted the key and is about to publish, or its message waits in
\* the Receiver of i.
NotificationPending(i, k) ==
    \/ \E r \in Callers : lpc[r] \in {"publish", "publish_exc"} /\ lkey[r] = k
    \/ k \in Range(inbox[i])

\* C34: a waiter is not stranded by the expiry of the holder's lock: when
\* the holder's max_lock_time has elapsed with no release and the key is
\* free, a waiter blocked in acquire is not left with its own timeout as
\* the only thing that can end its wait; something makes it try SET again.
C34_WaiterNotStranded ==
    \A c, h \in Callers :
        ( /\ lpc[h] = "holding" /\ expired[h] /\ lkey[h] = lkey[c]
          /\ redis_key[lkey[c]] = 0
          /\ lpc[c] = "wait" /\ fut[c] = "pending"
          /\ reader_alive[InstOf(c)] ) =>
            NotificationPending(InstOf(c), lkey[c])

\* C35: the subscription reader never fails while waking waiters: the
\* _reader task of every Lock instance is still running after any
\* notification, whatever the state of the futures queued for the key.
C35_ReaderNeverFails == \A i \in Insts : reader_alive[i]

\* The callers that are inside an acquire call.
InAcquire == {c \in Callers : lpc[c] \in {"set", "wait", "cancelling"}}

\* C40: the waiter registry keeps no leftovers: the future of a call of
\* acquire that has returned or raised is in no list of waiters, and
\* waiters maps no key to an empty list.
C40_NoLeftoverWaiters ==
    \A i \in Insts : \A k \in DOMAIN waiters[i] :
        /\ waiters[i][k] # <<>>
        /\ Range(waiters[i][k]) \subseteq InAcquire

\* One call of acquire has returned with the key while another caller of
\* the same Lock instance still waits: the list holds the waiter alone.
C40_Witness ==
    \E c, d \in Callers :
        /\ c # d /\ InstOf(c) = InstOf(d)
        /\ lpc[c] = "holding" /\ lpc[d] = "wait" /\ lkey[d] = lkey[c]
        /\ waiters[InstOf(d)][lkey[d]] = <<d>>

\* A step of caller c that touches neither the key in Redis nor any other
\* caller: nobody else is woken, resumed or granted anything.
OthersUntouched(c) ==
    /\ redis_key' = redis_key
    /\ \A w \in Callers \ {c} : fut'[w] = fut[w] /\ lpc'[w] = lpc[w]

\* acquire() of caller c ends with TimeoutError: c holds nothing and its
\* future is in no list of waiters.
TimedOutAndGone(c) ==
    /\ lpc'[c] = "idle"
    /\ \A i \in Insts : \A k \in DOMAIN waiters'[i] : c \notin Range(waiters'[i][k])

\* C13: an acquire whose timeout elapses while the key is still held raises
\* TimeoutError: once wait_for has timed out (or est <= 0 at a refused SET
\* with the future pending) the call ends without the key, its future
\* leaves the queue of the key, and no step of the timeout path wakes or
\* changes another waiter.
C13_TimeoutLeavesQuietly ==
    [][\A c \in Callers :
          /\ (lpc[c] = "wait" /\ lpc'[c] = "cancelling") => OthersUntouched(c)
          /\ (lpc[c] = "cancelling" /\ lpc'[c] # "cancelling") =>
                 (TimedOutAndGone(c) /\ OthersUntouched(c))
          /\ ( /\ lpc[c] = "set" /\ timed_out[c] /\ fut[c] = "pending"
               /\ redis_key[lkey[c]] # 0
               /\ lpc'[c] # "set" ) =>
                 (TimedOutAndGone(c) /\ OthersUntouched(c))]_vars

\* A waiter is timing out while the key is held and another waiter of the
\* same key stays asleep.
C13_Witness ==
    \E c, w \in Callers :
        /\ c # w
        /\ lpc[c] = "cancelling" /\ redis_key[lkey[c]] # 0
        /\ lpc[w] = "wait" /\ fut[w] = "pending" /\ lkey[w] = lkey[c]

\* C14: a holder that never releases cannot keep the key forever: once
\* max_lock_time has elapsed since its acquisition the key is no longer its
\* own in Redis, and the SET of another caller that finds the key unset
\* succeeds.
C14_ExpiredKeyIsFree ==
    /\ [](\A c \in Callers :
              (lpc[c] = "holding" /\ expired[c]) => redis_key[lkey[c]] # c)
    /\ [][\A c, d \in Callers :
              ( /\ c # d /\ lpc[c] = "holding" /\ expired[c]
                /\ lpc[d] = "set" /\ lkey[d] = lkey[c]
                /\ redis_key[lkey[c]] = 0
                /\ RedisSet(d) ) =>
                  (lpc'[d] = "holding" /\ redis_key'[lkey[c]] = d)]_vars

\* A holder never released, its max_lock_time elapsed, and another caller
\* holds the key now.
C14_Witness ==
    \E c, d \in Callers :
        /\ c # d
        /\ lpc[c] = "holding" /\ expired[c]
        /\ lpc[d] = "holding" /\ ~expired[d] /\ lkey[d] = lkey[c]
        /\ redis_key[lkey[c]] = d

\* C15: the scoped lock(key) holds the key while its block runs and
\* releases it on every exit, an exception of the body included: every exit
\* from the block deletes the key, and a caller that is outside acquire and
\* outside its block never owns the key in Redis.
C15_ScopedLockReleases ==
    /\ [](\A c \in Callers : lpc[c] = "idle" => \A k \in Keys : redis_key[k] # c)
    /\ [][\A c \in Callers :
              (lpc[c] = "holding" /\ lpc'[c] # "holding") =>
                  (lpc'[c] \in {"publish", "publish_exc"} /\ redis_key'[lkey[c]] = 0)]_vars

\* A block ended by an exception: its release has deleted the key while
\* another caller waits for it.
C15_Witness ==
    \E c, w \in Callers :
        /\ c # w
        /\ lpc[c] = "publish_exc" /\ redis_key[lkey[c]] = 0
        /\ lpc[w] = "wait" /\ lkey[w] = lkey[c]

(***************************************************************************)
(* Task scheduler                                                          *)
(***************************************************************************)

\* schedule(): a new row in task, pending, with its max_retries; its eta may
\* lie in the future.
Schedule(mr, now) ==
    /\ ~in_task /\ ~in_arch
    /\ in_task' = TRUE
    /\ status' = "pending"
    /\ max_retries' = mr
    /\ due' = now
    /\ UNCHANGED <<in_arch, attempts, row_lock, dpc, task_log, started>>

\* Time passes: the eta of the row is reached.
EtaReached ==
    /\ in_task /\ ~due
    /\ due' = TRUE
    /\ UNCHANGED <<in_task, in_arch, status, attempts, max_retries, row_lock, dpc,
                   task_log, started>>

\* The row is one the dispatch loop selects: status in {pending, retry} and
\* eta <= now.
Selectable == in_task /\ status \in {"pending", "retry"} /\ due

\* The scheduler loop of dispatcher d selects the due row.
Select(d) ==
    /\ dpc[d] = "idle"
    /\ Selectable
    /\ dpc' = [dpc EXCEPT ![d] = "selected"]
    /\ UNCHANGED <<in_task, in_arch, status, attempts, max_retries, due, row_lock,
                   task_log, started>>

\* The advisory lock taken whoever holds it.
LockIgnored == TRUE

\* The try-lock of the row's advisory lock succeeds only on a free lock.
LockFree == row_lock = 0

\* Dispatcher d tries the advisory lock of the selected row and skips the
\* row when a peer holds it.
TryLock(d) ==
    /\ dpc[d] = "selected"
    /\ IF LockFree
       THEN row_lock' = d /\ dpc' = [dpc EXCEPT ![d] = "locked"]
       ELSE dpc' = [dpc EXCEPT ![d] = "idle"] /\ UNCHANGED row_lock
    /\ UNCHANGED <<in_task, in_arch, status, attempts, max_retries, due, task_log,
                   started>>

\* Under the lock d reads the row again; a row that is no longer due (a peer
\* ran it, or it was canceled) is skipped and the lock released.
Check(d) ==
    /\ dpc[d] = "locked"
    /\ IF Selectable
       THEN dpc' = [dpc EXCEPT ![d] = "checked"] /\ UNCHANGED row_lock
       ELSE /\ dpc' = [dpc EXCEPT ![d] = "idle"]
            /\ row_lock' = IF row_lock = d THEN 0 ELSE row_lock
    /\ UNCHANGED <<in_task, in_arch, status, attempts, max_retries, due, task_log,
                   started>>

\* d takes the checked row along the state machine.  A retry row whose eta
\* is reached is first re-queued (retry to pending); a pending row is
\* transitioned to in_progress and the task body starts: a new attempt.  A
\* row that left task in between (cancel) is not transitioned.
Pick(d) ==
    /\ dpc[d] = "checked"
    /\ IF ~in_task
       THEN /\ dpc' = [dpc EXCEPT ![d] = "idle"]
            /\ row_lock' = IF row_lock = d THEN 0 ELSE row_lock
            /\ UNCHANGED <<status, attempts, started>>
       ELSE IF status = "retry"
            THEN /\ status' = "pending"
                 /\ UNCHANGED <<attempts, started, dpc, row_lock>>
            ELSE /\ status' = "in_progress"
                 /\ attempts' = attempts + 1
                 /\ started' = Append(started, attempts + 1)
                 /\ dpc' = [dpc EXCEPT ![d] = "running"]
                 /\ UNCHANGED row_lock
    /\ UNCHANGED <<in_task, in_arch, max_retries, due, task_log>>

\* The task body ends: it returns (ok) or raises, Retry included.
BodyEnd(d, ok) ==
    /\ dpc[d] = "running"
    /\ dpc' = [dpc EXCEPT ![d] = IF ok THEN "ok" ELSE "failed"]
    /\ UNCHANGED <<in_task, in_arch, status, attempts, max_retries, due, row_lock,
                   task_log, started>>

\* One more attempt granted than max_retries allows.
RetriesLeftInclusive == attempts - 1 <= max_retries

\* retries < max_retries, retries being the attempts made before this one.
RetriesLeft == attempts - 1 < max_retries

\* d appends the task_log row of the attempt and resolves the row:
\* successful (archive), retry (re-queued with a new eta) while
\* retries < max_retries, error (archive) when retries = max_retries.
Resolve(d) ==
    /\ dpc[d] \in {"ok", "failed"}
    /\ task_log' = Append(task_log, <<attempts, dpc[d]>>)
    /\ IF dpc[d] = "ok"
       THEN status' = "successful" /\ in_task' = FALSE /\ in_arch' = TRUE
                                   /\ UNCHANGED due
       ELSE IF RetriesLeft
            THEN status' = "retry" /\ due' = FALSE /\ UNCHANGED <<in_task, in_arch>>
            ELSE status' = "error" /\ in_task' = FALSE /\ in_arch' = TRUE
                                   /\ UNCHANGED due
    /\ dpc' = [dpc EXCEPT ![d] = "resolved"]
    /\ UNCHANGED <<attempts, max_retries, row_lock, started>>

\* d releases the advisory lock of the row.
Unlock(d) ==
    /\ dpc[d] = "resolved"
    /\ row_lock' = IF row_lock = d THEN 0 ELSE row_lock
    /\ dpc' = [dpc EXCEPT ![d] = "idle"]
    /\ UNCHANGED <<in_task, in_arch, status, attempts, max_retries, due, task_log,
                   started>>

\* cancel() taking effect on a row of task whatever its status.
CancelableAlways == in_task

\* cancel() takes effect on a pending or retry row only, never on a row in
\* progress.
Cancelable == in_task /\ status \in {"pending", "retry"}

\* cancel() inserting the canceled row into task_arch without deleting the
\* row from task.
CancelKeepsRow ==
    /\ Cancelable
    /\ in_arch' = TRUE
    /\ status' = "canceled"
    /\ UNCHANGED <<in_task, attempts, max_retries, due, row_lock, dpc, task_log,
                   started>>

\* cancel() deleting the row from task and marking it canceled, the
\* insertion into task_arch left for later.
CancelDeletesOnly ==
    /\ Cancelable
    /\ in_task' = FALSE
    /\ status' = "canceled"
    /\ UNCHANGED <<in_arch, attempts, max_retries, due, row_lock, dpc, task_log,
                   started>>

\* cancel(task_id) on a pending or retry row: the row leaves task and the
\* canceled row enters task_arch, in one step.
Cancel ==
    /\ Cancelable
    /\ in_task' = FALSE
    /\ in_arch' = TRUE
    /\ status' = "canceled"
    /\ UNCHANGED <<attempts, max_retries, due, row_lock, dpc, task_log, started>>

NextTask ==
    \/ \E mr \in 0..MaxRetries, now \in BOOLEAN :
           Schedule(mr, now) /\ UNCHANGED <<varsApp, varsSpan, varsLock, varsLogger, varsBatch, varsRpc, varsHeaders, varsRest, varsHealth, varsTrap, varsShield, varsPika>>
    \/ EtaReached /\ UNCHANGED <<varsApp, varsSpan, varsLock, varsLogger, varsBatch, varsRpc, varsHeaders, varsRest, varsHealth, varsTrap, varsShield, varsPika>>
    \/ \E d \in Dispatchers : Select(d) /\ UNCHANGED <<varsApp, varsSpan, varsLock, varsLogger, varsBatch, varsRpc, varsHeaders, varsRest, varsHealth, varsTrap, varsShield, varsPika>>
    \/ \E d \in Dispatchers : TryLock(d) /\ UNCHANGED <<varsApp, varsSpan, varsLock, varsLogger, varsBatch, varsRpc, varsHeaders, varsRest, varsHealth, varsTrap, varsShield, varsPika>>
    \/ \E d \in Dispatchers : Check(d) /\ UNCHANGED <<varsApp, varsSpan, varsLock, varsLogger, varsBatch, varsRpc, varsHeaders, varsRest, varsHealth, varsTrap, varsShield, varsPika>>
    \/ \E d \in Dispatchers : Pick(d) /\ UNCHANGED <<varsApp, varsSpan, varsLock, varsLogger, varsBatch, varsRpc, varsHeaders, varsRest, varsHealth, varsTrap, varsShield, varsPika>>
    \/ \E d \in Dispatchers, ok \in BOOLEAN :
           BodyEnd(d, ok) /\ UNCHANGED <<varsApp, varsSpan, varsLock, varsLogger, varsBatch, varsRpc, varsHeaders, varsRest, varsHealth, varsTrap, varsShield, varsPika>>
    \/ \E d \in Dispatchers : Resolve(d) /\ UNCHANGED <<varsApp, varsSpan, varsLock, varsLogger, varsBatch, varsRpc, varsHeaders, varsRest, varsHealth, varsTrap, varsShield, varsPika>>
    \/ \E d \in Dispatchers : Unlock(d) /\ UNCHANGED <<varsApp, varsSpan, varsLock, varsLogger, varsBatch, varsRpc, varsHeaders, varsRest, varsHealth, varsTrap, varsShield, varsPika>>
    \/ Cancel /\ UNCHANGED <<varsApp, varsSpan, varsLock, varsLogger, varsBatch, varsRpc, varsHeaders, varsRest, varsHealth, varsTrap, varsShield, varsPika>>

(***************************************************************************)
(* Task scheduler: the claims                                              *)
(***************************************************************************)

\* The dispatchers that are executing the task body.
Running == {d \in Dispatchers : dpc[d] = "running"}

\* C4: with several dispatchers competing for the row the task body never
\* runs on two of them at the same time, it is started once per attempt,
\* and the attempt count strictly increases from one start to the next.
C4_OncePerAttempt ==
    /\ Cardinality(Running) <= 1
    /\ \A i, j \in DOMAIN started : i < j => started[i] < started[j]
    /\ Len(started) = attempts

\* A second attempt is running on one dispatcher while a peer that selected
\* the same row is competing for it.
C4_Witness ==
    /\ Len(started) >= 2
    /\ \E d, e \in Dispatchers :
           d # e /\ dpc[d] = "running" /\ dpc[e] = "selected"

\* The transitions of the scheduler state machine, schedule() included.
StateMachine ==
    { <<"none", "pending">>, <<"pending", "in_progress">>,
      <<"in_progress", "successful">>, <<"in_progress", "retry">>,
      <<"in_progress", "error">>, <<"retry", "pending">>,
      <<"pending", "canceled">>, <<"retry", "canceled">> }

\* C25: a task whose body fails on every attempt is attempted exactly
\* max_retries + 1 times, with one task_log row per attempt, and ends as one
\* archive row with status error and retries = max_retries.
C25_FailingTaskAttempts ==
    /\ status = "error" =>
           /\ in_arch /\ ~in_task
           /\ attempts - 1 = max_retries
           /\ Len(started) = max_retries + 1
           /\ Len(task_log) = max_retries + 1
           /\ \A j \in DOMAIN task_log : task_log[j] = <<j, "failed">>
    /\ (in_arch /\ status # "canceled"
           /\ \A j \in DOMAIN task_log : task_log[j][2] = "failed")
          => status = "error"

\* A task scheduled with the largest max_retries failed every attempt and
\* was archived with status error.
C25_Witness ==
    /\ status = "error" /\ in_arch
    /\ max_retries = MaxRetries
    /\ Len(task_log) = MaxRetries + 1

C12_ExactlyOneRelation ==
    /\ [](status # "none" => (in_task # in_arch))
    /\ [][in_arch => (in_arch' /\ ~in_task')]_vars

\* The row is archived with status error after a retry, while a dispatcher
\* still has to release its lock.
C12_Witness ==
    /\ in_arch /\ ~in_task
    /\ status = "error"
    /\ Len(task_log) >= 2
    /\ \E d \in Dispatchers : dpc[d] = "resolved"

\* C26: cancel(task_id) is atomic: the step that makes the row canceled
\* takes it out of task and puts it into task_arch at once, so a canceled
\* row is never seen in both relations or in neither, also by a dispatcher
\* that is dispatching the row at that time.
C26_CancelAtomic ==
    /\ [](status = "canceled" => (in_arch /\ ~in_task))
    /\ [][(status' = "canceled" /\ status # "canceled") =>
             (in_task /\ ~in_arch /\ ~in_task' /\ in_arch')]_vars

\* The row was canceled while a dispatcher held its advisory lock and was
\* about to pick it.
C26_Witness ==
    /\ status = "canceled" /\ in_arch /\ ~in_task
    /\ \E d \in Dispatchers : dpc[d] = "checked" /\ row_lock = d

(***************************************************************************)
(* Logger.handle_span                                                      *)
(***************************************************************************)

\* Logger.add(adapter), before the first span is handled.
AddAdapter ==
    /\ hs_pc = "idle" /\ received = {} /\ cb_called = {}
    /\ n_adapters < MaxAdapters
    /\ n_adapters' = n_adapters + 1
    /\ UNCHANGED <<n_callbacks, hs_pc, hs_i, cb_called, received, failed, logged>>

\* Logger.add_before_handle_cb(fn).
AddBeforeHandleCb ==
    /\ hs_pc = "idle" /\ received = {} /\ cb_called = {}
    /\ n_callbacks < MaxCallbacks
    /\ n_callbacks' = n_callbacks + 1
    /\ UNCHANGED <<n_adapters, hs_pc, hs_i, cb_called, received, failed, logged>>

\* handle_span(span) is called (from finish() or _handle_children()).
HandleSpanCall ==
    /\ hs_pc = "idle"
    /\ hs_pc' = "callbacks"
    /\ hs_i' = 1
    /\ cb_called' = {}
    /\ received' = {}
    /\ failed' = {}
    /\ logged' = {}
    /\ UNCHANGED <<n_adapters, n_callbacks>>

\* The first loop: cb(span), outside any try; an exception of the callback
\* leaves handle_span.
CallbackStep(ok) ==
    /\ hs_pc = "callbacks" /\ hs_i <= n_callbacks
    /\ cb_called' = cb_called \cup {hs_i}
    /\ IF ok
       THEN hs_i' = hs_i + 1 /\ UNCHANGED hs_pc
       ELSE hs_pc' = "raised" /\ UNCHANGED hs_i
    /\ UNCHANGED <<n_adapters, n_callbacks, received, failed, logged>>

\* The first loop is exhausted: the second loop begins.
CallbacksDone ==
    /\ hs_pc = "callbacks" /\ hs_i > n_callbacks
    /\ hs_pc' = "adapters"
    /\ hs_i' = 1
    /\ UNCHANGED <<n_adapters, n_callbacks, cb_called, received, failed, logged>>

\* handle_span with no try around adapter.handle(span).
AdapterErrorPropagates == FALSE

\* The clause "except Exception as err" around adapter.handle(span).
AdapterErrorCaught == TRUE

\* The second loop: adapter.handle(span) in a try; an exception of the
\* adapter goes to app.log_err and the loop goes on.
AdapterStep(ok) ==
    /\ hs_pc = "adapters" /\ hs_i <= n_adapters
    /\ received' = received \cup {hs_i}
    /\ IF ok
       THEN hs_i' = hs_i + 1 /\ UNCHANGED <<hs_pc, failed, logged>>
       ELSE /\ failed' = failed \cup {hs_i}
            /\ IF AdapterErrorCaught
               THEN /\ logged' = logged \cup {hs_i}
                    /\ hs_i' = hs_i + 1
                    /\ UNCHANGED hs_pc
               ELSE hs_pc' = "raised" /\ UNCHANGED <<hs_i, logged>>
    /\ UNCHANGED <<n_adapters, n_callbacks, cb_called>>

\* The second loop is exhausted: handle_span returns.
HandleSpanReturn ==
    /\ hs_pc = "adapters" /\ hs_i > n_adapters
    /\ hs_pc' = "returned"
    /\ UNCHANGED <<n_adapters, n_callbacks, hs_i, cb_called, received, failed,
                   logged>>

NextLogger ==
    \/ AddAdapter /\ UNCHANGED <<varsApp, varsSpan, varsLock, varsTask, varsBatch, varsRpc, varsHeaders, varsRest, varsHealth, varsTrap, varsShield, varsPika>>
    \/ AddBeforeHandleCb /\ UNCHANGED <<varsApp, varsSpan, varsLock, varsTask, varsBatch, varsRpc, varsHeaders, varsRest, varsHealth, varsTrap, varsShield, varsPika>>
    \/ HandleSpanCall /\ UNCHANGED <<varsApp, varsSpan, varsLock, varsTask, varsBatch, varsRpc, varsHeaders, varsRest, varsHealth, varsTrap, varsShield, varsPika>>
    \/ \E ok \in BOOLEAN :
           CallbackStep(ok) /\ UNCHANGED <<varsApp, varsSpan, varsLock, varsTask, varsBatch, varsRpc, varsHeaders, varsRest, varsHealth, varsTrap, varsShield, varsPika>>
    \/ CallbacksDone /\ UNCHANGED <<varsApp, varsSpan, varsLock, varsTask, varsBatch, varsRpc, varsHeaders, varsRest, varsHealth, varsTrap, varsShield, varsPika>>
    \/ \E ok \in BOOLEAN :
           AdapterStep(ok) /\ UNCHANGED <<varsApp, varsSpan, varsLock, varsTask, varsBatch, varsRpc, varsHeaders, varsRest, varsHealth, varsTrap, varsShield, varsPika>>
    \/ HandleSpanReturn /\ UNCHANGED <<varsApp, varsSpan, varsLock, varsTask, varsBatch, varsRpc, varsHeaders, varsRest, varsHealth, varsTrap, varsShield, varsPika>>

\* C18: an adapter that raises while handling a span is logged and
\* swallowed: handle_span does not raise, and when it returns every
\* registered adapter has received the span.
C18_AdapterErrorsSwallowed ==
    failed # {} =>
        /\ failed \subseteq logged
        /\ hs_pc # "raised"
        /\ hs_pc = "returned" => received = 1..n_adapters

\* handle_span returned although the first of three adapters raised; the
\* later adapters received the span.
C18_Witness ==
    /\ hs_pc = "returned"
    /\ n_adapters = MaxAdapters
    /\ 1 \in failed
    /\ received = 1..n_adapters

\* C38: an exception of a pre-handle callback stays inside handle_span:
\* a call that has run callbacks never ends by an exception, so the code
\* that finished the span sees none, and the span reaches every adapter.
C38_CallbackErrorsContained ==
    cb_called # {} =>
        /\ hs_pc # "raised"
        /\ hs_pc = "returned" => received = 1..n_adapters

\* Every part starts from the state its constructor leaves.
(***************************************************************************)
(* JSON-RPC batch (spec 4.6): a non-empty array of envelopes, each         *)
(* executed independently and concurrently, the results assembled into an *)
(* array that preserves the input order; notifications are executed but    *)
(* omitted from the response.                                              *)
(***************************************************************************)

\* The batches a request can carry: the non-empty arrays of envelopes.
Batches == UNION {[1..n -> EnvelopeKinds] : n \in 1..MaxBatch}

\* A batch request arrives.
BatchReceive(b) ==
    /\ batch_pc = "idle"
    /\ batch' = b
    /\ batch_pc' = "executing"
    /\ UNCHANGED <<sub, finish_order, response>>

\* The execution of one envelope begins, whatever the others are doing.
SubBegin(i) ==
    /\ batch_pc = "executing"
    /\ i \in DOMAIN batch /\ sub[i] = "none"
    /\ sub' = [sub EXCEPT ![i] = "running"]
    /\ UNCHANGED <<batch, finish_order, response, batch_pc>>

\* The execution of one envelope completes, with a result or an error.
SubEnd(i) ==
    /\ batch_pc = "executing"
    /\ i \in DOMAIN batch /\ sub[i] = "running"
    /\ sub' = [sub EXCEPT ![i] = "done"]
    /\ finish_order' = Append(finish_order, i)
    /\ UNCHANGED <<batch, response, batch_pc>>

\* An envelope with an id, or one that is not a request at all, is answered.
Answered(i) == batch[i] # "notify"

\* The results assembled in the order the executions completed.
AssembledAsCompleted == SelectSeq(finish_order, Answered)

\* The results assembled into an array preserving input order.
Assembled == SelectSeq([i \in DOMAIN batch |-> i], Answered)

\* Every execution has completed: the response array is sent.
BatchRespond ==
    /\ batch_pc = "executing"
    /\ \A i \in DOMAIN batch : sub[i] = "done"
    /\ response' = Assembled
    /\ batch_pc' = "responded"
    /\ UNCHANGED <<batch, sub, finish_order>>

NextBatch ==
    \/ \E b \in Batches :
           BatchReceive(b) /\ UNCHANGED <<varsApp, varsSpan, varsLock, varsTask, varsLogger, varsRpc, varsHeaders, varsRest, varsHealth, varsTrap, varsShield, varsPika>>
    \/ \E i \in Positions :
           SubBegin(i) /\ UNCHANGED <<varsApp, varsSpan, varsLock, varsTask, varsLogger, varsRpc, varsHeaders, varsRest, varsHealth, varsTrap, varsShield, varsPika>>
    \/ \E i \in Positions :
           SubEnd(i) /\ UNCHANGED <<varsApp, varsSpan, varsLock, varsTask, varsLogger, varsRpc, varsHeaders, varsRest, varsHealth, varsTrap, varsShield, varsPika>>
    \/ BatchRespond /\ UNCHANGED <<varsApp, varsSpan, varsLock, varsTask, varsLogger, varsRpc, varsHeaders, varsRest, varsHealth, varsTrap, varsShield, varsPika>>

\* C24: the response array of a batch lists the results in the order of the
\* requests in the input (one element per envelope that is not a
\* notification), whatever order the concurrent executions completed in.
C24_BatchResponseInInputOrder ==
    batch_pc = "responded" =>
        /\ \A j \in 1..(Len(response) - 1) : response[j] < response[j + 1]
        /\ Range(response) = {i \in DOMAIN batch : Answered(i)}

\* The second envelope completed before the first while both were answered:
\* the executions overlapped and completed out of input order.
C24_Witness ==
    /\ batch_pc = "responded"
    /\ Len(response) >= 2
    /\ Len(finish_order) >= 2
    /\ finish_order[1] > finish_order[2]
    /\ Answered(finish_order[1]) /\ Answered(finish_order[2])

(***************************************************************************)
(* RpcClientChannel: RPC calls over AMQP                                   *)
(***************************************************************************)

\* call() up to publish: a fresh correlation id, a new future stored in
\* _futs under it.
CallBegin(c) ==
    /\ cpc[c] = "idle"
    /\ call_fut' = [call_fut EXCEPT ![c] = "pending"]
    /\ futs' = futs \cup {c}
    /\ cpc' = [cpc EXCEPT ![c] = "publish"]
    /\ UNCHANGED <<resolved_by, requests, replies>>

\* The request reaches the server's queue; publish() has not returned yet.
PublishSend(c) ==
    /\ cpc[c] = "publish"
    /\ requests' = requests \cup {c}
    /\ cpc' = [cpc EXCEPT ![c] = "sent"]
    /\ UNCHANGED <<futs, call_fut, resolved_by, replies>>

\* publish() raises: the finally clause deletes the entry of _futs.
PublishFail(c) ==
    /\ cpc[c] = "publish"
    /\ futs' = futs \ {c}
    /\ cpc' = [cpc EXCEPT ![c] = "PublishError"]
    /\ UNCHANGED <<call_fut, resolved_by, requests, replies>>

\* publish() returns: call() awaits wait_for(fut, timeout).
PublishDone(c) ==
    /\ cpc[c] = "sent"
    /\ cpc' = [cpc EXCEPT ![c] = "wait"]
    /\ UNCHANGED <<futs, call_fut, resolved_by, requests, replies>>

\* The server takes a request and publishes its reply to reply_to with the
\* correlation_id preserved; the code is 0 or an error code.
ServerReply(c, code) ==
    /\ c \in requests
    /\ requests' = requests \ {c}
    /\ replies' = replies \cup {<<c, code>>}
    /\ UNCHANGED <<futs, call_fut, cpc, resolved_by>>

\* The reply handed to the longest outstanding call, whatever its id.
LookupOldest(cid) ==
    IF futs = {} THEN 0 ELSE CHOOSE c \in futs : \A d \in futs : c <= d

\* _message: the entry of _futs under the reply's correlation_id, 0 if none.
Lookup(cid) == IF cid \in futs THEN cid ELSE 0

\* _message(body, deliver, properties) after its ack.  A reply whose id is
\* not in _futs is dropped; set_result / set_exception on a future that is
\* done already raises InvalidStateError inside _message.
Message(r) ==
    /\ r \in replies
    /\ replies' = replies \ {r}
    /\ LET t == Lookup(r[1])
       IN  IF t # 0 /\ call_fut[t] = "pending"
           THEN /\ call_fut' = [call_fut EXCEPT
                                   ![t] = IF r[2] = 0 THEN "result" ELSE "exception"]
                /\ resolved_by' = [resolved_by EXCEPT ![t] = r[1]]
           ELSE UNCHANGED <<call_fut, resolved_by>>
    /\ UNCHANGED <<futs, cpc, requests>>

\* The timeout of wait_for elapses: its waiter is woken.
TimerFire(c) ==
    /\ cpc[c] = "wait"
    /\ cpc' = [cpc EXCEPT ![c] = "timer"]
    /\ UNCHANGED <<futs, call_fut, resolved_by, requests, replies>>

\* wait_for resumes with the future done: call() returns the result or
\* raises the RpcError; the finally clause deletes the entry of _futs.
CallResume(c) ==
    /\ cpc[c] \in {"wait", "timer"}
    /\ call_fut[c] \in {"result", "exception"}
    /\ cpc' = [cpc EXCEPT ![c] = IF call_fut[c] = "result" THEN "returned"
                                                           ELSE "RpcError"]
    /\ futs' = futs \ {c}
    /\ UNCHANGED <<call_fut, resolved_by, requests, replies>>

\* wait_for resumes after the timeout with the future still pending: it
\* cancels the future and yields once more.
TimerResume(c) ==
    /\ cpc[c] = "timer"
    /\ call_fut[c] = "pending"
    /\ call_fut' = [call_fut EXCEPT ![c] = "cancelled"]
    /\ cpc' = [cpc EXCEPT ![c] = "cancelling"]
    /\ UNCHANGED <<futs, resolved_by, requests, replies>>

\* wait_for raises TimeoutError; the finally clause deletes the entry.
RpcTimeoutRaise(c) ==
    /\ cpc[c] = "cancelling"
    /\ cpc' = [cpc EXCEPT ![c] = "TimeoutError"]
    /\ futs' = futs \ {c}
    /\ UNCHANGED <<call_fut, resolved_by, requests, replies>>

NextRpc ==
    \/ \E c \in Calls : CallBegin(c) /\ UNCHANGED <<varsApp, varsSpan, varsLock, varsTask, varsLogger, varsBatch, varsHeaders, varsRest, varsHealth, varsTrap, varsShield, varsPika>>
    \/ \E c \in Calls : PublishSend(c) /\ UNCHANGED <<varsApp, varsSpan, varsLock, varsTask, varsLogger, varsBatch, varsHeaders, varsRest, varsHealth, varsTrap, varsShield, varsPika>>
    \/ \E c \in Calls : PublishFail(c) /\ UNCHANGED <<varsApp, varsSpan, varsLock, varsTask, varsLogger, varsBatch, varsHeaders, varsRest, varsHealth, varsTrap, varsShield, varsPika>>
    \/ \E c \in Calls : PublishDone(c) /\ UNCHANGED <<varsApp, varsSpan, varsLock, varsTask, varsLogger, varsBatch, varsHeaders, varsRest, varsHealth, varsTrap, varsShield, varsPika>>
    \/ \E c \in Calls, code \in {0, 1} :
           ServerReply(c, code) /\ UNCHANGED <<varsApp, varsSpan, varsLock, varsTask, varsLogger, varsBatch, varsHeaders, varsRest, varsHealth, varsTrap, varsShield, varsPika>>
    \/ \E r \in Calls \X {0, 1} :
           Message(r) /\ UNCHANGED <<varsApp, varsSpan, varsLock, varsTask, varsLogger, varsBatch, varsHeaders, varsRest, varsHealth, varsTrap, varsShield, varsPika>>
    \/ \E c \in Calls : TimerFire(c) /\ UNCHANGED <<varsApp, varsSpan, varsLock, varsTask, varsLogger, varsBatch, varsHeaders, varsRest, varsHealth, varsTrap, varsShield, varsPika>>
    \/ \E c \in Calls : CallResume(c) /\ UNCHANGED <<varsApp, varsSpan, varsLock, varsTask, varsLogger, varsBatch, varsHeaders, varsRest, varsHealth, varsTrap, varsShield, varsPika>>
    \/ \E c \in Calls : TimerResume(c) /\ UNCHANGED <<varsApp, varsSpan, varsLock, varsTask, varsLogger, varsBatch, varsHeaders, varsRest, varsHealth, varsTrap, varsShield, varsPika>>
    \/ \E c \in Calls : RpcTimeoutRaise(c) /\ UNCHANGED <<varsApp, varsSpan, varsLock, varsTask, varsLogger, varsBatch, varsHeaders, varsRest, varsHealth, varsTrap, varsShield, varsPika>>

\* C27: a call is resolved only by the reply that carries its own
\* correlation_id: a call that returned or raised RpcError was resolved by
\* that reply, and a published call that ended without it ended with
\* TimeoutError.
C27_ResolvedByOwnReply ==
    \A c \in Calls :
        /\ resolved_by[c] \in {0, c}
        /\ cpc[c] \in {"returned", "RpcError"} => resolved_by[c] = c
        /\ (cpc[c] \in {"returned", "RpcError", "TimeoutError"}
              /\ resolved_by[c] = 0) => cpc[c] = "TimeoutError"
        /\ cpc[c] = "TimeoutError" =>
              (resolved_by[c] = 0 /\ call_fut[c] = "cancelled")

\* Three calls were outstanding together: the last one returned with its
\* own reply, the first timed out, and the first's reply came too late.
C27_Witness ==
    /\ cpc[MaxCalls] = "returned" /\ resolved_by[MaxCalls] = MaxCalls
    /\ cpc[1] = "TimeoutError"
    /\ cpc[2] = "wait" /\ call_fut[2] = "pending"
    /\ \E code \in {0, 1} : <<1, code>> \in replies

(***************************************************************************)
(* Span.to_headers and Span.from_headers: B3 propagation                   *)
(***************************************************************************)

\* What generate_random_128bit_string and generate_random_64bit_string
\* return: non-empty hex strings.
RandomTraceIds == {"a1a1", "b2b2"}

RandomSpanIds == {"11", "22"}

\* The B3 header names of aiozipkin.helpers, as to_headers writes them.
TRACE_ID_HEADER == "X-B3-TraceId"
SPAN_ID_HEADER == "X-B3-SpanId"
PARENT_ID_HEADER == "X-B3-ParentSpanId"
FLAGS_HEADER == "X-B3-Flags"
SAMPLED_ID_HEADER == "X-B3-Sampled"

\* str.lower() on the header names that occur.
Lower(n) ==
    CASE n = TRACE_ID_HEADER -> "x-b3-traceid"
      [] n = SPAN_ID_HEADER -> "x-b3-spanid"
      [] n = PARENT_ID_HEADER -> "x-b3-parentspanid"
      [] n = FLAGS_HEADER -> "x-b3-flags"
      [] n = SAMPLED_ID_HEADER -> "x-b3-sampled"
      [] OTHER -> n

\* Span.new(): random trace id and id, no parent, not skipped.
SpanNewValue(t, i) ==
    [trace_id |-> t, id |-> i, parent_id |-> NoneVal, skip |-> FALSE]

\* to_headers() announcing every span as sampled.
SampledAlways(s) == "1"

\* to_headers(): '1' if not self._skip else '0'.
Sampled(s) == IF ~s.skip THEN "1" ELSE "0"

\* Span.to_headers().
to_headers(s) ==
    LET names == {TRACE_ID_HEADER, SPAN_ID_HEADER, FLAGS_HEADER, SAMPLED_ID_HEADER}
                 \cup (IF s.parent_id # NoneVal THEN {PARENT_ID_HEADER} ELSE {})
    IN  [n \in names |->
            CASE n = TRACE_ID_HEADER -> s.trace_id
              [] n = SPAN_ID_HEADER -> s.id
              [] n = FLAGS_HEADER -> "0"
              [] n = SAMPLED_ID_HEADER -> Sampled(s)
              [] OTHER -> s.parent_id]

\* {k.lower(): v for k, v in headers.items()}.
Lowered(h) ==
    [k \in {Lower(n) : n \in DOMAIN h} |->
        h[CHOOSE n \in DOMAIN h : Lower(n) = k]]

\* aiozipkin.helpers.parse_sampled_header on the lowered headers: None for
\* a missing or empty header, else whether the value is '1'.
parse_sampled_header(h) ==
    IF Lower(SAMPLED_ID_HEADER) \notin DOMAIN h THEN "None"
    ELSE IF h[Lower(SAMPLED_ID_HEADER)] = "" THEN "None"
    ELSE IF h[Lower(SAMPLED_ID_HEADER)] = "1" THEN "True" ELSE "False"

\* Span.from_headers(headers); t and i are the random strings it draws.
from_headers(headers, t, i) ==
    LET h == Lowered(headers)
        sampled == parse_sampled_header(h)
        span == IF Lower(TRACE_ID_HEADER) \notin DOMAIN h
                THEN SpanNewValue(t, i)
                ELSE [trace_id |-> IF h[Lower(TRACE_ID_HEADER)] = "" THEN t
                                   ELSE h[Lower(TRACE_ID_HEADER)],
                      id |-> i,
                      parent_id |-> IF Lower(SPAN_ID_HEADER) \in DOMAIN h
                                    THEN h[Lower(SPAN_ID_HEADER)] ELSE NoneVal,
                      skip |-> FALSE]
    IN  IF sampled = "False" THEN [span EXCEPT !.skip = TRUE] ELSE span

\* Headers sent by a peer that is not this program: any subset of the B3
\* headers, in either spelling, with well-formed or odd values.
ForeignHeaders ==
    LET tr == {NoHeaders}
              \cup {[n \in {k} |-> v] :
                       k \in {TRACE_ID_HEADER, Lower(TRACE_ID_HEADER)},
                       v \in {"", "c3c3"}}
        si == {NoHeaders} \cup {[n \in {Lower(SPAN_ID_HEADER)} |-> "33"]}
        sa == {NoHeaders}
              \cup {[n \in {SAMPLED_ID_HEADER} |-> v] : v \in {"", "0", "1", "true"}}
    IN  {[n \in (DOMAIN a \cup DOMAIN b \cup DOMAIN c) |->
             IF n \in DOMAIN a THEN a[n] ELSE IF n \in DOMAIN b THEN b[n] ELSE c[n]] :
         a \in tr, b \in si, c \in sa}

\* Logger.new(): the process starts a trace.
SpanNew(t, i) ==
    /\ sp = NoSpan
    /\ sp' = SpanNewValue(t, i)
    /\ UNCHANGED <<hdrs, hdr_from, sent, sp2>>

\* The span received with the headers goes on as the span of this process.
SpanAdopt ==
    /\ sp2 # NoSpan
    /\ sp' = sp2
    /\ sp2' = NoSpan
    /\ hdrs' = NoHeaders /\ hdr_from' = "none" /\ sent' = NoSpan

\* parent.new_child(): same trace, a random id, the skip flag inherited.
SpanChild(i) ==
    /\ sp # NoSpan /\ hdr_from = "none"
    /\ sp' = [trace_id |-> sp.trace_id, id |-> i, parent_id |-> sp.id,
              skip |-> sp.skip]
    /\ UNCHANGED <<hdrs, hdr_from, sent, sp2>>

\* span.skip().
SpanSkip ==
    /\ sp # NoSpan /\ ~sp.skip
    /\ sp' = [sp EXCEPT !.skip = TRUE]
    /\ UNCHANGED <<hdrs, hdr_from, sent, sp2>>

\* headers = S.to_headers(), put on the wire.
ToHeadersCall ==
    /\ sp # NoSpan /\ hdr_from = "none"
    /\ hdrs' = to_headers(sp)
    /\ hdr_from' = "span"
    /\ sent' = sp
    /\ UNCHANGED <<sp, sp2>>

\* A request of a foreign peer arrives with its headers.
ForeignArrives(h) ==
    /\ hdr_from = "none"
    /\ hdrs' = h
    /\ hdr_from' = "foreign"
    /\ UNCHANGED <<sp, sent, sp2>>

\* S' = Span.from_headers(headers) at the receiving side.
FromHeadersCall(t, i) ==
    /\ hdr_from # "none" /\ sp2 = NoSpan
    /\ sp2' = from_headers(hdrs, t, i)
    /\ UNCHANGED <<sp, hdrs, hdr_from, sent>>

NextHeaders ==
    \/ \E t \in RandomTraceIds, i \in RandomSpanIds :
           SpanNew(t, i) /\ UNCHANGED <<varsApp, varsSpan, varsLock, varsTask, varsLogger, varsBatch, varsRpc, varsRest, varsHealth, varsTrap, varsShield, varsPika>>
    \/ SpanAdopt /\ UNCHANGED <<varsApp, varsSpan, varsLock, varsTask, varsLogger, varsBatch, varsRpc, varsRest, varsHealth, varsTrap, varsShield, varsPika>>
    \/ \E i \in RandomSpanIds :
           SpanChild(i) /\ UNCHANGED <<varsApp, varsSpan, varsLock, varsTask, varsLogger, varsBatch, varsRpc, varsRest, varsHealth, varsTrap, varsShield, varsPika>>
    \/ SpanSkip /\ UNCHANGED <<varsApp, varsSpan, varsLock, varsTask, varsLogger, varsBatch, varsRpc, varsRest, varsHealth, varsTrap, varsShield, varsPika>>
    \/ ToHeadersCall /\ UNCHANGED <<varsApp, varsSpan, varsLock, varsTask, varsLogger, varsBatch, varsRpc, varsRest, varsHealth, varsTrap, varsShield, varsPika>>
    \/ \E h \in ForeignHeaders :
           ForeignArrives(h) /\ UNCHANGED <<varsApp, varsSpan, varsLock, varsTask, varsLogger, varsBatch, varsRpc, varsRest, varsHealth, varsTrap, varsShield, varsPika>>
    \/ \E t \in RandomTraceIds, i \in RandomSpanIds :
           FromHeadersCall(t, i) /\ UNCHANGED <<varsApp, varsSpan, varsLock, varsTask, varsLogger, varsBatch, varsRpc, varsRest, varsHealth, varsTrap, varsShield, varsPika>>

\* C28: for a span S, S' = from_headers(S.to_headers()) has the trace id of
\* S, the id of S as its parent_id, and the skip flag of S.
C28_HeadersRoundTrip ==
    (hdr_from = "span" /\ sp2 # NoSpan) =>
        /\ sp2.trace_id = sent.trace_id
        /\ sp2.parent_id = sent.id
        /\ sp2.skip = sent.skip

\* A skipped span that has a parent, received from a foreign peer's trace,
\* went through to_headers and from_headers.
C28_Witness ==
    /\ hdr_from = "span" /\ sp2 # NoSpan
    /\ sent.skip /\ sent.parent_id # NoneVal /\ sent.trace_id = "c3c3"
    /\ sp2.id # sent.id

(***************************************************************************)
(* PostRpcExecutor.exec: the HTTP status of a positional-RPC response      *)
(***************************************************************************)

\* The codes a user-defined error class can carry.
ErrCodes == 0..MaxErrCode

RequestBodies == {"bad_json", "not_dict", "empty_dict", "dict"}

MethodOutcomes == {"result_dict", "result_other", "user_error", "exception",
                   "not_found", "invalid_args"}

\* A status mirroring client errors only.
InClientErrorRange(code) == code >= 400 /\ code < 500

\* code in range(400, 600).
InHttpErrorRange(code) == code >= 400 /\ code < 600

\* status_code = code if code in range(400, 600) else status_code (200).
StatusFor(code) == IF InHttpErrorRange(code) THEN code ELSE 200

\* _handle() reads the body and calls exec(request, method_name).
ExecCall(body) ==
    /\ rest_pc = "idle"
    /\ rest_pc' = "parse"
    /\ req_body' = body
    /\ outcome' = "none" /\ err_code' = 0 /\ resp_code' = -1 /\ status_code' = 0

\* _parse_request: bad JSON and a body that is not an object raise
\* PostRpcInvalidRequestError (400), an empty object raises
\* PostRpcInvalidParamsError (400); exec() returns their error response.
ParseRequest ==
    /\ rest_pc = "parse"
    /\ IF req_body = "dict"
       THEN /\ rest_pc' = "exec"
            /\ UNCHANGED <<resp_code, status_code>>
       ELSE /\ rest_pc' = "returned"
            /\ resp_code' = 400
            /\ status_code' = StatusFor(400)
    /\ UNCHANGED <<req_body, outcome, err_code>>

\* _exec_single: the method returns or raises; error_respond(e) takes the
\* code of e, or 404 / 400 / 500 for the framework's own errors and for an
\* exception without a code.
ExecSingle(o, code) ==
    /\ rest_pc = "exec"
    /\ o = "user_error" \/ code = 0
    /\ outcome' = o
    /\ err_code' = code
    /\ resp_code' = CASE o = "user_error" -> code
                       [] o = "exception" -> 500
                       [] o = "not_found" -> 404
                       [] o = "invalid_args" -> 400
                       [] OTHER -> -1
    /\ rest_pc' = "executed"
    /\ UNCHANGED <<req_body, status_code>>

\* exec() after _exec_single: an error response is returned with the status
\* of its code; a success response is serialized, and a result that is not
\* a non-empty dict raises PostRpcParseError (500) there.
ExecReturn ==
    /\ rest_pc = "executed"
    /\ IF resp_code # -1
       THEN /\ status_code' = StatusFor(resp_code)
            /\ UNCHANGED resp_code
       ELSE IF outcome = "result_dict"
            THEN /\ status_code' = 200
                 /\ UNCHANGED resp_code
            ELSE /\ resp_code' = 500
                 /\ status_code' = StatusFor(500)
    /\ rest_pc' = "returned"
    /\ UNCHANGED <<req_body, outcome, err_code>>

\* _handle() sends web.Response(status=resp_status_code, ...).
HandleRespond ==
    /\ rest_pc = "returned"
    /\ rest_pc' = "idle"
    /\ UNCHANGED <<req_body, outcome, err_code, resp_code, status_code>>

NextRest ==
    \/ \E body \in RequestBodies :
           ExecCall(body) /\ UNCHANGED <<varsApp, varsSpan, varsLock, varsTask, varsLogger, varsBatch, varsRpc, varsHeaders, varsHealth, varsTrap, varsShield, varsPika>>
    \/ ParseRequest /\ UNCHANGED <<varsApp, varsSpan, varsLock, varsTask, varsLogger, varsBatch, varsRpc, varsHeaders, varsHealth, varsTrap, varsShield, varsPika>>
    \/ \E o \in MethodOutcomes, code \in ErrCodes :
           ExecSingle(o, code) /\ UNCHANGED <<varsApp, varsSpan, varsLock, varsTask, varsLogger, varsBatch, varsRpc, varsHeaders, varsHealth, varsTrap, varsShield, varsPika>>
    \/ ExecReturn /\ UNCHANGED <<varsApp, varsSpan, varsLock, varsTask, varsLogger, varsBatch, varsRpc, varsHeaders, varsHealth, varsTrap, varsShield, varsPika>>
    \/ HandleRespond /\ UNCHANGED <<varsApp, varsSpan, varsLock, varsTask, varsLogger, varsBatch, varsRpc, varsHeaders, varsHealth, varsTrap, varsShield, varsPika>>

\* C29: a user-defined error raised by a positional-RPC method is returned
\* with HTTP status 200, unless its code lies in [400, 599]: then the HTTP
\* status equals the code.
C29_UserErrorStatus ==
    (rest_pc = "returned" /\ outcome = "user_error") =>
        /\ resp_code = err_code
        /\ (err_code >= 400 /\ err_code <= 599) => status_code = err_code
        /\ ~(err_code >= 400 /\ err_code <= 599) => status_code = 200

\* An error with the last code of the range was returned with that status.
C29_Witness ==
    /\ rest_pc = "returned" /\ outcome = "user_error"
    /\ err_code = 599 /\ status_code = 599

(***************************************************************************)
(* ServerHandler: the health-check request and its spans                   *)
(***************************************************************************)

\* req_wrapper: a GET or HEAD request on the health-check path arrives; its
\* span is made from the headers (a root in this process) and becomes the
\* span of the context.
HealthRequest(meth) ==
    /\ health_pc \in {"idle", "done"}
    /\ New
    /\ req_span' = nspans + 1
    /\ http_method' = meth
    /\ is_sick' = FALSE
    /\ health_pc' = "checking"
    /\ UNCHANGED healthy

\* app.health(): a component's health() opens a span under the span of the
\* context, the request span or an open span below it.
HealthChildSpan(p) ==
    /\ health_pc = "checking"
    /\ p \in {req_span} \cup Descendants(req_span)
    /\ finished[p] = 0
    /\ NewChild(p)
    /\ UNCHANGED varsHealth

\* A span opened while serving the request finishes, during the check or
\* later.
HealthChildFinish(s) ==
    /\ health_pc # "idle"
    /\ s \in Descendants(req_span)
    /\ Finish(s)
    /\ UNCHANGED varsHealth

\* _healthcheck() returns: is_sick iff some component's health() raised.
HealthChecked(sick) ==
    /\ health_pc = "checking"
    /\ is_sick' = sick
    /\ healthy' = IF sick THEN healthy ELSE healthy \cup {req_span}
    /\ health_pc' = "checked"
    /\ UNCHANGED <<http_method, req_span>>
    /\ UNCHANGED varsSpan

\* A health handler that leaves the span of the request alone.
SkipsNever == FALSE

\* The else branch of "if result['is_sick']": span.skip().
SkipsWhenHealthy == ~is_sick

\* _health_handler_get / _health_handler_head after _healthcheck(): raise
\* HTTPInternalServerError when sick, else skip the span of the context and
\* return the response.
HealthRespond ==
    /\ health_pc = "checked"
    /\ IF SkipsWhenHealthy THEN Skip(req_span) ELSE UNCHANGED varsSpan
    /\ health_pc' = "responded"
    /\ UNCHANGED <<http_method, is_sick, req_span, healthy>>

\* req_wrapper leaves "with span": the span of the request finishes.
HealthSpanExit ==
    /\ health_pc = "responded"
    /\ Finish(req_span)
    /\ health_pc' = "done"
    /\ UNCHANGED <<http_method, is_sick, req_span, healthy>>

NextHealth ==
    \/ \E meth \in {"GET", "HEAD"} :
           HealthRequest(meth) /\ UNCHANGED <<varsApp, varsLock, varsTask, varsLogger, varsBatch, varsRpc, varsHeaders, varsRest, varsTrap, varsShield, varsPika>>
    \/ \E p \in SpanIds : HealthChildSpan(p) /\ UNCHANGED <<varsApp, varsLock, varsTask, varsLogger, varsBatch, varsRpc, varsHeaders, varsRest, varsTrap, varsShield, varsPika>>
    \/ \E s \in SpanIds : HealthChildFinish(s) /\ UNCHANGED <<varsApp, varsLock, varsTask, varsLogger, varsBatch, varsRpc, varsHeaders, varsRest, varsTrap, varsShield, varsPika>>
    \/ \E sick \in BOOLEAN : HealthChecked(sick) /\ UNCHANGED <<varsApp, varsLock, varsTask, varsLogger, varsBatch, varsRpc, varsHeaders, varsRest, varsTrap, varsShield, varsPika>>
    \/ HealthRespond /\ UNCHANGED <<varsApp, varsLock, varsTask, varsLogger, varsBatch, varsRpc, varsHeaders, varsRest, varsTrap, varsShield, varsPika>>
    \/ HealthSpanExit /\ UNCHANGED <<varsApp, varsLock, varsTask, varsLogger, varsBatch, varsRpc, varsHeaders, varsRest, varsTrap, varsShield, varsPika>>

\* C30: when every component is healthy, the span of the health-check
\* request is marked skip once the handler has answered, and neither it nor
\* any span created while serving the request is ever handed to adapters.
C30_HealthySpanSkipped ==
    \A r \in healthy :
        /\ (r # req_span \/ health_pc \in {"responded", "done"}) =>
               \A t \in {r} \cup Descendants(r) : skip[t]
        /\ \A t \in {r} \cup Descendants(r) : handed[t] = 0

\* A healthy request is over: its span finished, one span below it finished
\* during the check and another only after the request span.
C30_Witness ==
    /\ health_pc = "done" /\ req_span \in healthy
    /\ finished[req_span] = 1 /\ is_handled[req_span]
    /\ Cardinality(Descendants(req_span)) >= 2
    /\ \A t \in Descendants(req_span) : finished[t] > 0 /\ is_handled[t]

(***************************************************************************)
(* SpanTrap: logger.capture_span(cls)                                      *)
(***************************************************************************)

\* isinstance(span, cls): AmqpSpan and PgSpan are subclasses of Span.
IsInstance(c, cls) == c = cls \/ cls = "Span"

\* capture_span(cls) and SpanTrap.__enter__: the trap joins the traps of
\* the context.
TrapEnter(cls) ==
    /\ trap_pc = "new"
    /\ trap_pc' = "entered"
    /\ trap_cls' = cls
    /\ trap_from' = Len(span_log)
    /\ UNCHANGED <<trap_span, span_log>>

\* SpanTrap._set_span(span), for the span at position i of span_log.
set_span(i, c) == IF IsInstance(c, trap_cls) THEN i ELSE trap_span

\* Span.__enter__ on a span of class c: every trap of the context gets
\* _set_span(span).
SpanEnter(c) ==
    /\ Len(span_log) < MaxEntered
    /\ span_log' = Append(span_log, c)
    /\ trap_span' = IF trap_pc = "entered"
                     THEN set_span(Len(span_log) + 1, c) ELSE trap_span
    /\ UNCHANGED <<trap_pc, trap_cls, trap_from>>

\* SpanTrap.__exit__: the trap leaves the traps of the context.
TrapExit ==
    /\ trap_pc = "entered"
    /\ trap_pc' = "exited"
    /\ UNCHANGED <<trap_cls, trap_from, trap_span, span_log>>

NextTrap ==
    \/ \E cls \in SpanClasses : TrapEnter(cls) /\ UNCHANGED <<varsApp, varsSpan, varsLock, varsTask, varsLogger, varsBatch, varsRpc, varsHeaders, varsRest, varsHealth, varsShield, varsPika>>
    \/ \E c \in SpanClasses : SpanEnter(c) /\ UNCHANGED <<varsApp, varsSpan, varsLock, varsTask, varsLogger, varsBatch, varsRpc, varsHeaders, varsRest, varsHealth, varsShield, varsPika>>
    \/ TrapExit /\ UNCHANGED <<varsApp, varsSpan, varsLock, varsTask, varsLogger, varsBatch, varsRpc, varsHeaders, varsRest, varsHealth, varsShield, varsPika>>

\* The spans of a matching class entered after the trap was.
MatchesSince ==
    {j \in (trap_from + 1)..Len(span_log) : IsInstance(span_log[j], trap_cls)}

\* C31: the span a trap holds is the first span of a matching class that
\* was entered after the trap was; no matching span precedes it there.
C31_TrapHoldsFirstMatch ==
    trap_span # 0 => \A j \in MatchesSince : trap_span <= j

(***************************************************************************)
(* RestRpcHttpHandler.rpc_handler with the shield option, and Server.stop  *)
(***************************************************************************)

\* The handler is configured and the server started.
ShieldServe(b) ==
    /\ sh_pc = "new"
    /\ sh_pc' = "serving"
    /\ cfg_shield' = b
    /\ UNCHANGED <<outer, inner>>

\* rpc_handler is called for request r: the handler task awaits _handle,
\* through asyncio.shield when the option is set.
RpcHandlerCall(r) ==
    /\ sh_pc = "serving"
    /\ outer[r] = "none"
    /\ outer' = [outer EXCEPT ![r] = "running"]
    /\ inner' = [inner EXCEPT ![r] = "running"]
    /\ UNCHANGED <<sh_pc, cfg_shield>>

\* _handle returns; the handler task, if it still waits, returns its response.
HandleReturn(r) ==
    /\ inner[r] = "running"
    /\ inner' = [inner EXCEPT ![r] = "done"]
    /\ outer' = [outer EXCEPT ![r] = IF @ = "running" THEN "done" ELSE @]
    /\ UNCHANGED <<sh_pc, cfg_shield>>

\* What a CancelledError thrown into the handler task does to the
\* invocation: asyncio.shield keeps the inner task running, a plain await
\* passes the cancellation on.
Shielded == cfg_shield

\* The handler task is cancelled: the client gave up (ClientTimeout) and
\* the connection was dropped, or shutdown_timeout ran out during the stop.
ClientDisconnect(r) ==
    /\ outer[r] = "running"
    /\ outer' = [outer EXCEPT ![r] = "cancelled"]
    /\ inner' = [inner EXCEPT ![r] = IF Shielded THEN @ ELSE "cancelled"]
    /\ UNCHANGED <<sh_pc, cfg_shield>>

\* Server.stop begins: runner.cleanup() closes the listening sockets.
ServerStop ==
    /\ sh_pc = "serving"
    /\ sh_pc' = "stopping"
    /\ UNCHANGED <<cfg_shield, outer, inner>>

\* runner.cleanup() returns once the handler tasks of the connections are
\* over; Server.stop awaits nothing else.
ServerStopReturn ==
    /\ sh_pc = "stopping"
    /\ \A r \in RequestIds : outer[r] # "running"
    /\ sh_pc' = "stopped"
    /\ UNCHANGED <<cfg_shield, outer, inner>>

NextShield ==
    \/ \E b \in BOOLEAN : ShieldServe(b) /\ UNCHANGED <<varsApp, varsSpan, varsLock, varsTask, varsLogger, varsBatch, varsRpc, varsHeaders, varsRest, varsHealth, varsTrap, varsPika>>
    \/ \E r \in RequestIds : RpcHandlerCall(r) /\ UNCHANGED <<varsApp, varsSpan, varsLock, varsTask, varsLogger, varsBatch, varsRpc, varsHeaders, varsRest, varsHealth, varsTrap, varsPika>>
    \/ \E r \in RequestIds : HandleReturn(r) /\ UNCHANGED <<varsApp, varsSpan, varsLock, varsTask, varsLogger, varsBatch, varsRpc, varsHeaders, varsRest, varsHealth, varsTrap, varsPika>>
    \/ \E r \in RequestIds : ClientDisconnect(r) /\ UNCHANGED <<varsApp, varsSpan, varsLock, varsTask, varsLogger, varsBatch, varsRpc, varsHeaders, varsRest, varsHealth, varsTrap, varsPika>>
    \/ ServerStop /\ UNCHANGED <<varsApp, varsSpan, varsLock, varsTask, varsLogger, varsBatch, varsRpc, varsHeaders, varsRest, varsHealth, varsTrap, varsPika>>
    \/ ServerStopReturn /\ UNCHANGED <<varsApp, varsSpan, varsLock, varsTask, varsLogger, varsBatch, varsRpc, varsHeaders, varsRest, varsHealth, varsTrap, varsPika>>

\* C32: with the shield option set, no started invocation is cancelled, and
\* when the stop of the server has returned every started invocation has
\* run to completion.
C32_ShieldedInvocationsComplete ==
    cfg_shield =>
        /\ \A r \in RequestIds : inner[r] # "cancelled"
        /\ sh_pc = "stopped" =>
               \A r \in RequestIds : inner[r] \in {"none", "done"}

(***************************************************************************)
(* Pika: prepare, _connect, _on_disconnect, channel; PikaChannel.publish   *)
(***************************************************************************)

\* `while max_attempts is None or attempt < max_attempts`
LoopGoesOn(m, a) == m = -1 \/ a < m

\* `if max_attempts is not None and attempt >= max_attempts: raise`
RaisesAfterLoop(m, a) == m # -1 /\ a >= m

\* _connect(max_attempts=m) up to its first await, _channels holding reg.
\* With no attempt allowed the loop is skipped and the test after it raises.
ConnectCall(m, reg) ==
    /\ attempt' = 0
    /\ cn_max' = m
    /\ conn_ok' = FALSE
    /\ registered' = reg
    /\ cn_pc' = IF LoopGoesOn(m, 0) THEN "loop" ELSE "raised"
    /\ UNCHANGED n_chans

\* prepare(): _connect(max_attempts=cfg.connect_max_attempts)
ConnectPrepare(m) ==
    /\ cn_pc = "idle"
    /\ ConnectCall(m, registered)
    /\ UNCHANGED <<ch_closed, pub_pc, pub_via>>

\* One attempt: _conn.connect() succeeds (break) or raises (close, sleep,
\* next test of the loop).  After the loop the attempt counter is tested;
\* then _open_channels makes a new PikaChannel, alone in _channels.
ConnectAttempt(ok) ==
    /\ cn_pc = "loop"
    /\ attempt < MaxAttempts
    /\ ok => n_chans < MaxChannels
    /\ attempt' = attempt + 1
    /\ conn_ok' = ok
    /\ IF ~ok /\ LoopGoesOn(cn_max, attempt + 1)
       THEN cn_pc' = "loop" /\ UNCHANGED <<n_chans, registered>>
       ELSE IF RaisesAfterLoop(cn_max, attempt + 1)
       THEN cn_pc' = "raised" /\ UNCHANGED <<n_chans, registered>>
       ELSE /\ cn_pc' = "done"
            /\ n_chans' = n_chans + 1
            /\ registered' = n_chans + 1
    /\ UNCHANGED <<cn_max, ch_closed, pub_pc, pub_via>>

\* The broker closes the AMQP channel of PikaChannel o; the channel was
\* opened with on_close=None, so nothing else happens.
ChannelClosed(o) ==
    /\ o <= n_chans /\ ~ch_closed[o]
    /\ ch_closed' = [ch_closed EXCEPT ![o] = TRUE]
    /\ UNCHANGED <<cn_pc, cn_max, attempt, conn_ok, n_chans, registered,
                   pub_pc, pub_via>>

\* The connection is lost, and every channel with it: _on_disconnect
\* empties _channels and calls _connect() with no limit.
OnDisconnect ==
    /\ cn_pc = "done"
    /\ ch_closed' = [o \in ChannelIds |-> o <= n_chans \/ ch_closed[o]]
    /\ ConnectCall(-1, 0)
    /\ UNCHANGED <<pub_pc, pub_via>>

\* publish() on PikaChannel o, entered at depth d of the call stack, up to
\* its end or its first suspension: basic_publish when the channel is open;
\* else amqp.channel(name), a sleep when it is None, and else
\* `return await ch.publish(...)`, a call that suspends nowhere before the
\* next test.  Beyond the recursion limit the interpreter raises
\* RecursionError.
RECURSIVE PublishFrom(_, _)
PublishFrom(o, d) ==
    IF d > RecursionLimit THEN [pc |-> "recursion", via |-> 0]
    ELSE IF ~ch_closed[o] THEN [pc |-> "published", via |-> o]
    ELSE IF registered = 0 THEN [pc |-> "sleep", via |-> 0]
    ELSE PublishFrom(registered, d + 1)

\* A caller that holds PikaChannel o awaits o.publish(...).
PublishCall(o) ==
    /\ pub_pc = "idle"
    /\ o <= n_chans
    /\ pub_pc' = PublishFrom(o, 1).pc
    /\ pub_via' = PublishFrom(o, 1).via
    /\ UNCHANGED <<cn_pc, cn_max, attempt, conn_ok, n_chans, registered, ch_closed>>

\* asyncio.sleep(0.1) is over and amqp.channel(name) is not None any more.
PublishWake ==
    /\ pub_pc = "sleep"
    /\ registered # 0
    /\ pub_pc' = PublishFrom(registered, 2).pc
    /\ pub_via' = PublishFrom(registered, 2).via
    /\ UNCHANGED <<cn_pc, cn_max, attempt, conn_ok, n_chans, registered, ch_closed>>

\* publish_timeout elapses during the sleep: TimeoutError.
PublishTimeout ==
    /\ pub_pc = "sleep"
    /\ pub_pc' = "timeout"
    /\ UNCHANGED <<cn_pc, cn_max, attempt, conn_ok, n_chans, registered,
                   ch_closed, pub_via>>

\* The caller has its result or its exception.
PublishEnd ==
    /\ pub_pc \in {"published", "timeout", "recursion"}
    /\ pub_pc' = "idle"
    /\ pub_via' = 0
    /\ UNCHANGED <<cn_pc, cn_max, attempt, conn_ok, n_chans, registered, ch_closed>>

NextPika ==
    \/ \E m \in 0..MaxAttempts : ConnectPrepare(m) /\ UNCHANGED <<varsApp, varsSpan, varsLock, varsTask, varsLogger, varsBatch, varsRpc, varsHeaders, varsRest, varsHealth, varsTrap, varsShield>>
    \/ \E ok \in BOOLEAN : ConnectAttempt(ok) /\ UNCHANGED <<varsApp, varsSpan, varsLock, varsTask, varsLogger, varsBatch, varsRpc, varsHeaders, varsRest, varsHealth, varsTrap, varsShield>>
    \/ \E o \in ChannelIds : ChannelClosed(o) /\ UNCHANGED <<varsApp, varsSpan, varsLock, varsTask, varsLogger, varsBatch, varsRpc, varsHeaders, varsRest, varsHealth, varsTrap, varsShield>>
    \/ OnDisconnect /\ UNCHANGED <<varsApp, varsSpan, varsLock, varsTask, varsLogger, varsBatch, varsRpc, varsHeaders, varsRest, varsHealth, varsTrap, varsShield>>
    \/ \E o \in ChannelIds : PublishCall(o) /\ UNCHANGED <<varsApp, varsSpan, varsLock, varsTask, varsLogger, varsBatch, varsRpc, varsHeaders, varsRest, varsHealth, varsTrap, varsShield>>
    \/ PublishWake /\ UNCHANGED <<varsApp, varsSpan, varsLock, varsTask, varsLogger, varsBatch, varsRpc, varsHeaders, varsRest, varsHealth, varsTrap, varsShield>>
    \/ PublishTimeout /\ UNCHANGED <<varsApp, varsSpan, varsLock, varsTask, varsLogger, varsBatch, varsRpc, varsHeaders, varsRest, varsHealth, varsTrap, varsShield>>
    \/ PublishEnd /\ UNCHANGED <<varsApp, varsSpan, varsLock, varsTask, varsLogger, varsBatch, varsRpc, varsHeaders, varsRest, varsHealth, varsTrap, varsShield>>

\* C36: the connection made by prepare succeeds whenever one of the first
\* connect_max_attempts attempts succeeds, the last one included, and
\* raises PrepareError only when every allowed attempt has failed.
C36_ConnectWithinAttempts ==
    (cn_max # -1 /\ cn_pc \in {"done", "raised"}) =>
        /\ conn_ok => cn_pc = "done"
        /\ cn_pc = "raised" => (~conn_ok /\ attempt = cn_max)

\* C39: publish on a channel whose AMQP channel is closed ends by a publish
\* through another, open PikaChannel or by TimeoutError: it never runs into
\* the limit of the call stack by calling itself without end.
C39_PublishTerminates == pub_pc # "recursion"

Init == InitApp /\ InitSpan /\ InitLock /\ InitTask /\ InitLogger /\ InitBatch /\ InitRpc /\ InitHeaders /\ InitRest /\ InitHealth /\ InitTrap /\ InitShield /\ InitPika

SpecApp == Init /\ [][NextApp]_vars

SpecSpan == Init /\ [][NextSpan]_vars

SpecLock == Init /\ [][NextLock]_vars

SpecTask == Init /\ [][NextTask]_vars

SpecLogger == Init /\ [][NextLogger]_vars

SpecBatch == Init /\ [][NextBatch]_vars

SpecRpc == Init /\ [][NextRpc]_vars

SpecHeaders == Init /\ [][NextHeaders]_vars

SpecRest == Init /\ [][NextRest]_vars

SpecHealth == Init /\ [][NextHealth]_vars

SpecTrap == Init /\ [][NextTrap]_vars

SpecShield == Init /\ [][NextShield]_vars

SpecPika == Init /\ [][NextPika]_vars
====
